---- MODULE Spec2Model ----
(***************************************************************************)
(* Model of stackkit's configkit requirement registry and its              *)
(* validation / discovery engine (discovery.go of package configkit).      *)
(*                                                                         *)
(* Go strings are modelled as sequences of tokens (a word, or one of the   *)
(* separator characters the code searches for: ".", ",", "/", "'", ...).   *)
(* Concatenation is \o, strings.Split / strings.Join / strings.Index work  *)
(* on the token "." (etc.) exactly as the Go functions work on the         *)
(* character.  A reflect.Type is modelled by an identifier into a table of *)
(* the Go types the program registers (reflect.Type values are compared by *)
(* identity).                                                              *)
(***************************************************************************)
EXTENDS Naturals, Sequences, FiniteSets, TLC

VARIABLES
    reqSeen,     \* discovery.go: reqSeen, the set of typeKey signatures
    reqs,        \* discovery.go: reqs, the registered entries in order
    registered,  \* history: the <<key, type>> pairs registered since the last reset
    calls,       \* history: the number of registration calls since the last reset
    op,          \* the last exported operation that ran
    arg,         \* its argument
    ret,         \* its result
    prevReqs,    \* history: the Requirements() results since the last registration or reset
    cleared,     \* history: the pairs the reset just before had removed, kept for one registration
    reqMu,       \* discovery.go: reqMu, the goroutine that holds it or Free
    goroutines,  \* the goroutines that call the registry: position, argument, locals, result
    started,     \* history: the number of calls the goroutines have made
    shutdown,    \* signal.go: a Shutdown, its WaitGroup, timer and the goroutines around it
    health       \* healthkit: a Health, its lifecycle hooks, its goroutine and its handler

vars == <<reqSeen, reqs, registered, calls, op, arg, ret, prevReqs, cleared,
          reqMu, goroutines, started, shutdown, health>>

\* The state of the concurrent parts, which the sequential operations leave alone.
processes == <<reqMu, goroutines, started, shutdown, health>>

\* Bound of the model: the number of registration calls between two resets.
MaxCalls == 3

\* Bounds of the concurrent registry: the goroutines, and the calls they make.
NumGoroutines == 2
MaxOps == 3

\* Bounds of the Shutdown: the tracked goroutines, the TriggerGraceful
\* calls, and the timeout of Wait in ticks.
MaxWorkers == 2
MaxTriggers == 2
MaxTimeout == 1

\* Bound of the signal handler: the SIGINT/SIGTERM signals sent to the process.
MaxSignals == 2

\* Bound of the health service: the requests its handler serves.
MaxRequests == 3

----------------------------------------------------------------------------
(* Strings *)

\* Byte order of the tokens that take part in a comparison ("-" 0x2d and "."
\* 0x2e sort before digits, upper-case and lower-case letters; no word holds
\* a byte below 0x30, so comparing token by token is comparing byte by byte).
Alphabet ==
    << "-", ".", "Addr", "Config", "Limit", "Options",
       "addr", "bogus", "cert", "db", "dsn", "extra", "host", "inner", "labels",
       "mix", "name", "net", "port", "region", "rest", "srv", "tls", "value", "zone" >>

Rank(a) == IF \E i \in 1..Len(Alphabet) : Alphabet[i] = a
           THEN CHOOSE i \in 1..Len(Alphabet) : Alphabet[i] = a
           ELSE Len(Alphabet) + 1

\* Go's < on strings.
StrLess(a, b) ==
    \E i \in 1..(Len(b)) :
        /\ \A j \in 1..(i-1) : j <= Len(a) /\ a[j] = b[j]
        /\ \/ i = Len(a) + 1
           \/ i <= Len(a) /\ Rank(a[i]) < Rank(b[i])

\* strings.Split(s, sep) for a one-character sep.
RECURSIVE Split(_, _)
Split(s, sep) ==
    IF \E i \in 1..Len(s) : s[i] = sep
    THEN LET i == CHOOSE i \in 1..Len(s) :
                      s[i] = sep /\ \A j \in 1..(i-1) : s[j] # sep
         IN <<SubSeq(s, 1, i-1)>> \o Split(SubSeq(s, i+1, Len(s)), sep)
    ELSE <<s>>

\* strings.Join(parts, sep)
RECURSIVE Join(_, _)
Join(parts, sep) ==
    IF Len(parts) = 0 THEN <<>>
    ELSE IF Len(parts) = 1 THEN parts[1]
    ELSE parts[1] \o <<sep>> \o Join(Tail(parts), sep)

\* strings.TrimSpace
RECURSIVE TrimSpace(_)
TrimSpace(s) ==
    IF Len(s) > 0 /\ s[1] = " " THEN TrimSpace(Tail(s))
    ELSE IF Len(s) > 0 /\ s[Len(s)] = " " THEN TrimSpace(SubSeq(s, 1, Len(s)-1))
    ELSE s

\* strings.Index(s, sub) for a token sequence sub; 0 when absent, else the
\* 1-based position of the first occurrence.
Index(s, sub) ==
    LET at(i) == i + Len(sub) - 1 <= Len(s) /\ SubSeq(s, i, i + Len(sub) - 1) = sub
    IN IF \E i \in 1..Len(s) : at(i)
       THEN CHOOSE i \in 1..Len(s) : at(i) /\ \A j \in 1..(i-1) : ~at(j)
       ELSE 0

\* strings.LastIndex(s, sub)
LastIndex(s, sub) ==
    LET at(i) == i + Len(sub) - 1 <= Len(s) /\ SubSeq(s, i, i + Len(sub) - 1) = sub
    IN IF \E i \in 1..Len(s) : at(i)
       THEN CHOOSE i \in 1..Len(s) : at(i) /\ \A j \in (i+1)..Len(s) : ~at(j)
       ELSE 0

\* strings.Repeat(" ", n)
RECURSIVE Spaces(_)
Spaces(n) == IF n = 0 THEN <<>> ELSE <<" ">> \o Spaces(n - 1)

\* x put into the sorted sequence of strings s, after the elements not above it.
insertAt(s, x, n) == SubSeq(s, 1, n) \o <<x>> \o SubSeq(s, n + 1, Len(s))
insertString(s, x) == insertAt(s, x, Cardinality({j \in 1..Len(s) : ~StrLess(x, s[j])}))

\* sort.Strings
RECURSIVE SortStrings(_)
SortStrings(s) ==
    IF Len(s) = 0 THEN <<>>
    ELSE insertString(SortStrings(SubSeq(s, 1, Len(s) - 1)), s[Len(s)])

\* The set of elements of a sequence.
Range(s) == {s[i] : i \in 1..Len(s)}

----------------------------------------------------------------------------
(* The Go types of the program: the reflect.Type table *)

\* A struct field as reflect.StructField shows it: PkgPath is non-empty for
\* an unexported field; yaml, json and validate are f.Tag.Get(...) values.
Fld(name, pkgPath, yaml, json, validate, type) ==
    [Name |-> name, PkgPath |-> pkgPath, yaml |-> yaml, json |-> json,
     validate |-> validate, Type |-> type, Anonymous |-> FALSE]

\* An embedded field: its name is the name of its type.
Embedded(yaml, type, name) ==
    [Name |-> name, PkgPath |-> <<>>, yaml |-> yaml, json |-> <<>>,
     validate |-> <<>>, Type |-> type, Anonymous |-> TRUE]

\* type Config struct {            // package app/db
\*     Host string `yaml:"host" validate:"required"`
\*     Port int    `yaml:"port"`
\* }
\* type Config struct {            // package lib/db, also named db
\*     Dsn string `yaml:"dsn" validate:"required"`
\* }
\* type Config struct {            // package app/srv
\*     Name   string
\*     Tls    TLS               `yaml:"tls"`
\*     Common                   `yaml:",inline"`
\*     Labels map[string]string `yaml:"labels"`
\*     secret string
\*     Skip   string            `yaml:"-"`
\* }
\* type TLS struct    { Cert string `yaml:"cert" validate:"required"` }
\* type Common struct { Region string `yaml:"region"`; Deep `yaml:",inline"` }
\* type Deep struct   { Zone string `yaml:"zone"` }
\* type Options struct {           // package app/mix
\*     Name  string            `yaml:"name"`
\*     Extra map[string]string `yaml:",inline"`
\*     Inner Inner             `yaml:"inner"`
\*     More                    `yaml:",inline"`
\*     Debug Inner             `yaml:"-"`
\* }
\* type Inner struct  { Value int `yaml:"value"`; Limit int `yaml:",omitempty"` }
\* type More struct   { Rest map[string]string `yaml:",inline"` }
\* type Addr struct {              // package app/net
\*     Addr string `yaml:"addr" validate:"required"`
\*     Port int    `yaml:"port"`
\* }
\* struct { Host string `yaml:"host"` }   // unnamed types: Anon1, Anon2
\* struct { Name string `yaml:"name"` }
StructTypes ==
    {"DB", "DB2", "SRV", "TLS", "Common", "Deep", "MIX", "Inner", "More", "Addr",
     "Anon1", "Anon2"}

\* reflect.Type.Kind()
Kind(t) ==
    IF t \in StructTypes THEN "struct"
    ELSE IF t = "PDB" THEN "ptr"
    ELSE IF t = "mapSS" THEN "map"
    ELSE IF t = "sliceS" THEN "slice"
    ELSE t  \* "string", "int"

\* reflect.Type.Elem() of a pointer type
Elem(t) == IF t = "PDB" THEN "DB" ELSE t

\* reflect.Type.Name(): empty for unnamed (pointer, map, slice) types
TypeName(t) ==
    CASE t \in {"DB", "DB2", "SRV"} -> <<"Config">>
      [] t = "TLS"    -> <<"TLS">>
      [] t = "Common" -> <<"Common">>
      [] t = "Deep"   -> <<"Deep">>
      [] t = "MIX"    -> <<"Options">>
      [] t = "Inner"  -> <<"Inner">>
      [] t = "More"   -> <<"More">>
      [] t = "Addr"   -> <<"Addr">>
      [] t \in {"string", "int"} -> <<t>>
      [] OTHER -> <<>>

\* reflect.Type.PkgPath(): the import path, empty for predeclared and unnamed types
PkgPath(t) ==
    CASE t = "DB"  -> <<"app", "/", "db">>
      [] t = "DB2" -> <<"lib", "/", "db">>
      [] t \in {"SRV", "TLS", "Common", "Deep"} -> <<"app", "/", "srv">>
      [] t \in {"MIX", "Inner", "More"} -> <<"app", "/", "mix">>
      [] t = "Addr" -> <<"app", "/", "net">>
      [] OTHER -> <<>>

\* The name of the package that declares t (the package clause, not the path).
PkgName(t) ==
    CASE t \in {"DB", "DB2"} -> "db"
      [] t \in {"SRV", "TLS", "Common", "Deep"} -> "srv"
      [] t \in {"MIX", "Inner", "More"} -> "mix"
      [] t = "Addr" -> "net"
      [] OTHER -> ""

\* reflect.Type.String(): package name "." type name, "*" before a pointer's element
RECURSIVE TypeString(_)
TypeString(t) ==
    IF Kind(t) = "ptr" THEN <<"*">> \o TypeString(Elem(t))
    ELSE IF t = "mapSS" THEN <<"map[string]string">>
    ELSE IF t = "Anon1" THEN <<"struct { Host string \"yaml:\\\"host\\\"\" }">>
    ELSE IF t = "Anon2" THEN <<"struct { Name string \"yaml:\\\"name\\\"\" }">>
    ELSE IF PkgPath(t) = <<>> THEN TypeName(t)
    ELSE <<PkgName(t), ".">> \o TypeName(t)

StringT == "string"
NoTag == <<>>

\* reflect.Type.Field(i), for i in 1..NumField
Fields(t) ==
    CASE t = "DB" ->
            << Fld("Host", <<>>, <<"host">>, NoTag, <<"required">>, StringT),
               Fld("Port", <<>>, <<"port">>, NoTag, NoTag, "int") >>
      [] t = "DB2" ->
            << Fld("Dsn", <<>>, <<"dsn">>, NoTag, <<"required">>, StringT) >>
      [] t = "SRV" ->
            << Fld("Name", <<>>, NoTag, NoTag, NoTag, StringT),
               Fld("Tls", <<>>, <<"tls">>, NoTag, NoTag, "TLS"),
               Embedded(<<",", "inline">>, "Common", "Common"),
               Fld("Labels", <<>>, <<"labels">>, NoTag, NoTag, "mapSS"),
               Fld("secret", PkgPath("SRV"), NoTag, NoTag, NoTag, StringT),
               Fld("Skip", <<>>, <<"-">>, NoTag, NoTag, StringT) >>
      [] t = "TLS" ->
            << Fld("Cert", <<>>, <<"cert">>, NoTag, <<"required">>, StringT) >>
      [] t = "Common" ->
            << Fld("Region", <<>>, <<"region">>, NoTag, NoTag, StringT),
               Embedded(<<",", "inline">>, "Deep", "Deep") >>
      [] t = "Deep" ->
            << Fld("Zone", <<>>, <<"zone">>, NoTag, NoTag, StringT) >>
      [] t = "MIX" ->
            << Fld("Name", <<>>, <<"name">>, NoTag, NoTag, StringT),
               Fld("Extra", <<>>, <<",", "inline">>, NoTag, NoTag, "mapSS"),
               Fld("Inner", <<>>, <<"inner">>, NoTag, NoTag, "Inner"),
               Embedded(<<",", "inline">>, "More", "More"),
               Fld("Debug", <<>>, <<"-">>, NoTag, NoTag, "Inner") >>
      [] t = "Inner" ->
            << Fld("Value", <<>>, <<"value">>, NoTag, NoTag, "int"),
               Fld("Limit", <<>>, <<",", "omitempty">>, NoTag, NoTag, "int") >>
      [] t = "More" ->
            << Fld("Rest", <<>>, <<",", "inline">>, NoTag, NoTag, "mapSS") >>
      [] t = "Addr" ->
            << Fld("Addr", <<>>, <<"addr">>, NoTag, <<"required">>, StringT),
               Fld("Port", <<>>, <<"port">>, NoTag, NoTag, "int") >>
      [] t = "Anon1" ->
            << Fld("Host", <<>>, <<"host">>, NoTag, NoTag, StringT) >>
      [] t = "Anon2" ->
            << Fld("Name", <<>>, <<"name">>, NoTag, NoTag, StringT) >>
      [] OTHER -> <<>>

\* strings.ToLower(f.Name[:1]) + f.Name[1:] on the identifiers of the table
LowerFirst(name) ==
    CASE name = "Host" -> "host"     [] name = "Port" -> "port"
      [] name = "Dsn" -> "dsn"       [] name = "Name" -> "name"
      [] name = "Tls" -> "tls"       [] name = "Common" -> "common"
      [] name = "Labels" -> "labels" [] name = "Skip" -> "skip"
      [] name = "Cert" -> "cert"     [] name = "Region" -> "region"
      [] name = "Deep" -> "deep"     [] name = "Zone" -> "zone"
      [] name = "Extra" -> "extra"   [] name = "Inner" -> "inner"
      [] name = "Rest" -> "rest"     [] name = "Value" -> "value"
      [] name = "Addr" -> "addr"     [] name = "More" -> "more"
      [] name = "Limit" -> "limit"
      [] OTHER -> name

\* t with all pointer indirections removed
RECURSIVE Base(_)
Base(t) == IF Kind(t) = "ptr" THEN Base(Elem(t)) ELSE t

----------------------------------------------------------------------------
(* The registry *)

\* The registrations the modules of the program make: <<key, type>>.
RegPairs ==
    { <<<<"db">>, "DB">>, <<<<"db">>, "PDB">>, <<<<"db">>, "DB2">>,
      <<<<"db">>, "Addr">>, <<<<"srv">>, "SRV">>, <<<<"mix">>, "MIX">>,
      <<<<"addr">>, "Addr">>, <<<<>>, "Addr">> }

Keys  == {p[1] : p \in RegPairs}
Types == {p[2] : p \in RegPairs}

\* typeKey that leaves the type out of the signature.
typeKey_KeyOnly(key, t) == key

typeKey(key, t) == key \o <<"NUL">> \o TypeString(t)

reqEntry(key, t) == [key |-> key, t |-> t, base |-> Base(t)]

\* The Type string Requirements() and Check() show for a base type.
shortName(parts, tname) ==
    IF parts[Len(parts)] # <<>> THEN parts[Len(parts)] \o <<".">> \o tname ELSE tname

DisplayType(base) ==
    IF PkgPath(base) # <<>> THEN shortName(Split(PkgPath(base), "/"), TypeName(base))
    ELSE TypeName(base)

Requirement(key, type, pkgPath) == [Key |-> key, Type |-> type, PkgPath |-> pkgPath]

\* The less function without its tie-break on Type.
lessKeyType_KeyOnly(a, b) == StrLess(a.Key, b.Key)

\* The less function of the sort.SliceStable calls of Requirements and Check.
lessKeyType(a, b) ==
    IF a.Key = b.Key THEN StrLess(a.Type, b.Type) ELSE StrLess(a.Key, b.Key)

\* x put into the sorted sequence s, after the elements that are not above it.
insertKeyType(s, x) ==
    insertAt(s, x, Cardinality({j \in 1..Len(s) : ~lessKeyType(x, s[j])}))

\* sort.SliceStable(out, lessKeyType)
RECURSIVE SortStableKeyType(_)
SortStableKeyType(s) ==
    IF Len(s) = 0 THEN <<>>
    ELSE insertKeyType(SortStableKeyType(SubSeq(s, 1, Len(s) - 1)), s[Len(s)])

\* Requirements(): one Requirement per entry, sorted by (Key, Type).
RequirementsOf(rs) ==
    SortStableKeyType(
        [i \in 1..Len(rs) |->
            Requirement(rs[i].key, DisplayType(rs[i].base), PkgPath(rs[i].base))])

----------------------------------------------------------------------------
(* Spec: field specifications *)

FieldSpec(path, type, required) == [Path |-> path, Type |-> type, Required |-> required]

\* parseYAMLTag, the yaml tag absent (lines 221-232): the name of the json
\* tag j with parts parts, or the field name with its first letter lowered.
parseYAMLTagJSON(j, parts, f) ==
    IF j # <<>> /\ parts[1] # <<>> /\ parts[1] # <<"-">>
    THEN [name |-> parts[1], inline |-> FALSE]
    ELSE [name |-> <<LowerFirst(f.Name)>>, inline |-> FALSE]

\* parseYAMLTag, the yaml tag present with parts parts (lines 233-246).
parseYAMLTagParts(parts, f) ==
    [name   |-> IF parts[1] # <<>> THEN parts[1] ELSE <<f.Name>>,
     inline |-> \E i \in 2..Len(parts) : TrimSpace(parts[i]) = <<"inline">>]

\* parseYAMLTag after tag = strings.TrimSpace(tag).
parseYAMLTagTrimmed(tag, j, f) ==
    IF tag = <<>> THEN parseYAMLTagJSON(j, Split(j, ","), f)
    ELSE parseYAMLTagParts(Split(tag, ","), f)

\* parseYAMLTag(tag, f): the external name of field f and whether it is inline.
parseYAMLTag(tag, f) == parseYAMLTagTrimmed(TrimSpace(tag), TrimSpace(f.json), f)

\* The loop of hasRequired over the tokens of the tag.
hasRequiredToken(toks) == \E i \in 1..Len(toks) : TrimSpace(toks[i]) = <<"required">>

\* hasRequired(tag): the validate tag holds the token "required".
hasRequired(tag) == tag # <<>> /\ hasRequiredToken(Split(tag, ","))

trimPkgAt(s, i) == IF i > 0 THEN SubSeq(s, i + 1, Len(s)) ELSE s

\* trimPkg(s): what follows the last "." of s.
trimPkg(s) == trimPkgAt(s, LastIndex(s, <<".">>))

\* The path walkStruct gives a field named name (lines 182-191).
fieldPath(prefix, name, inline) ==
    IF inline THEN prefix
    ELSE IF prefix = <<>> THEN name
    ELSE prefix \o <<".">> \o name

\* The Type of a leaf FieldSpec: the type's name, else its kind (lines 208-212).
leafKind(base) == IF TypeName(base) # <<>> THEN TypeName(base) ELSE <<Kind(base)>>

RECURSIVE walkStruct(_, _)

\* The body of walkStruct's loop for the exported field f, p its parsed tag,
\* base its type without pointers.
walkField(f, p, base, prefix) ==
    IF Kind(base) = "struct" THEN walkStruct(base, fieldPath(prefix, p.name, p.inline))
    ELSE IF p.name = <<"-">> THEN <<>>
    ELSE <<FieldSpec(fieldPath(prefix, p.name, p.inline), leafKind(base),
                     hasRequired(f.validate))>>

\* The loop of walkStruct over the fields fs from the i-th on.
RECURSIVE walkFields(_, _, _)
walkFields(fs, i, prefix) ==
    IF i > Len(fs) THEN <<>>
    ELSE (IF fs[i].PkgPath # <<>> THEN <<>>
          ELSE walkField(fs[i], parseYAMLTag(fs[i].yaml, fs[i]), Base(fs[i].Type), prefix))
         \o walkFields(fs, i + 1, prefix)

\* walkStruct after its one pointer step (lines 167-215).
walkDeref(t, prefix) ==
    IF Kind(t) # "struct" THEN <<>> ELSE walkFields(Fields(t), 1, prefix)

\* walkStruct(t, prefix, out): the FieldSpecs appended to out.
walkStruct(t, prefix) == walkDeref(IF Kind(t) = "ptr" THEN Elem(t) ELSE t, prefix)

\* Whether entry r is the one Spec looks for (lines 146-151).
specHit(r, req) ==
    PkgPath(r.base) = req.PkgPath /\ TypeName(r.base) = trimPkg(req.Type)

\* The entry Spec selects for req: the first hit, 0 when there is none.
specMatch(rs, req) ==
    IF \E i \in 1..Len(rs) : specHit(rs[i], req)
    THEN CHOOSE i \in 1..Len(rs) :
             specHit(rs[i], req) /\ \A j \in 1..(i-1) : ~specHit(rs[j], req)
    ELSE 0

specAt(rs, m) ==
    IF m = 0 THEN [err |-> TRUE, fields |-> <<>>]
    ELSE [err |-> FALSE, fields |-> walkStruct(rs[m].base, <<>>)]

\* Spec(req): (fields, err)
SpecOf(rs, req) == specAt(rs, specMatch(rs, req))

----------------------------------------------------------------------------
(* Skeleton: example YAML *)

\* strings.ToLower on the FieldSpec types of the table
ToLowerType(t) ==
    CASE t = <<"TLS">> -> <<"tls">>          [] t = <<"Config">> -> <<"config">>
      [] t = <<"Options">> -> <<"options">>  [] t = <<"Addr">> -> <<"addr">>
      [] OTHER -> t

\* The placeholder of a lower-cased type t (lines 648-663).
placeholder(t) ==
    CASE t = <<"string">> -> <<"\"\"">>
      [] t \in {<<"int">>, <<"int32">>, <<"int64">>,
                <<"uint">>, <<"uint32">>, <<"uint64">>} -> <<"0">>
      [] t \in {<<"float32">>, <<"float64">>} -> <<"0.0">>
      [] t = <<"bool">> -> <<"false">>
      [] OTHER -> IF Index(t, <<"duration">>) > 0 THEN <<"\"1s\"">> ELSE <<"<value>">>

\* placeholderFor(s)
placeholderFor(s) ==
    IF s.Required THEN placeholder(ToLowerType(s.Type)) \o <<"  # required">>
    ELSE placeholder(ToLowerType(s.Type))

\* The values Skeleton stores in its tree, with their dynamic Go type: a
\* value of the local type node (a map from segment to value) or a string.
EmptyMap == [k \in {} |-> <<>>]
NodeVal(m) == [dyn |-> "node", m |-> m, s |-> <<>>]
StrVal(s)  == [dyn |-> "string", m |-> EmptyMap, s |-> s]
NilNode    == [dyn |-> "nil", m |-> EmptyMap, s |-> <<>>]
Panic      == [dyn |-> "panic", m |-> EmptyMap, s |-> <<>>]

\* cur[seg] = v
setKey(cur, seg, v) ==
    NodeVal([k \in DOMAIN cur.m \cup {seg} |-> IF k = seg THEN v ELSE cur.m[k]])

\* The node the loop goes on with: cur[seg] created when absent, and nil when
\* the assertion cur[seg].(node) fails.
childOf(cur, seg) == IF seg \in DOMAIN cur.m THEN cur.m[seg] ELSE NodeVal(EmptyMap)

\* cur after the loop has gone through the child had, sub being the child
\* after the writes below it.
afterChild(cur, seg, had, sub) ==
    IF sub.dyn = "panic" THEN Panic
    ELSE IF had.dyn # "node" THEN cur
    ELSE setKey(cur, seg, sub)

\* The loop over the segments of one path (Skeleton, lines 596-607): cur is
\* the node reached so far; the result is cur after the writes, or Panic when
\* a write hits a nil map.
RECURSIVE insertPath(_, _, _)
insertBelow(cur, parts, leaf, had) ==
    afterChild(cur, parts[1], had,
               insertPath(IF had.dyn = "node" THEN had ELSE NilNode, Tail(parts), leaf))

insertPath(cur, parts, leaf) ==
    IF cur.dyn # "node" THEN Panic
    ELSE IF Len(parts) = 1 THEN setKey(cur, parts[1], StrVal(leaf))
    ELSE insertBelow(cur, parts, leaf, childOf(cur, parts[1]))

\* The tree Skeleton builds from the field specs (lines 589-608).
RECURSIVE buildTree(_, _)
buildTree(root, specs) ==
    IF Len(specs) = 0 \/ root.dyn = "panic" THEN root
    ELSE IF specs[1].Path = <<>> THEN buildTree(root, Tail(specs))
    ELSE buildTree(insertPath(root, Split(specs[1].Path, "."), placeholderFor(specs[1])),
                   Tail(specs))

\* The least string of a non-empty set.
minKey(ks) == CHOOSE x \in ks : \A y \in ks \ {x} : StrLess(x, y)

\* The keys of a map, collected and passed to sort.Strings.
RECURSIVE sortedKeys(_)
sortedFrom(ks, m) == <<m>> \o sortedKeys(ks \ {m})
sortedKeys(ks) == IF ks = {} THEN <<>> ELSE sortedFrom(ks, minKey(ks))

\* fmt.Fprint of a value: a string as it is, a map as map[k:v k:v] with its
\* keys in sorted order.
RECURSIVE fmtValue(_)
RECURSIVE fmtEntries(_, _, _)
fmtEntries(m, keys, i) ==
    IF i > Len(keys) THEN <<>>
    ELSE (IF i > 1 THEN <<" ">> ELSE <<>>) \o keys[i] \o <<":">> \o fmtValue(m[keys[i]])
         \o fmtEntries(m, keys, i + 1)

fmtValue(v) ==
    IF v.dyn = "string" THEN v.s
    ELSE <<"map[">> \o fmtEntries(v.m, sortedKeys(DOMAIN v.m), 1) \o <<"]">>

\* The case of renderNode's type switch that a value takes: the case
\* map[string]interface{} matches a value whose dynamic type is exactly that
\* type; a value of the defined type node is of another type.
isMapStringInterface(v) == v.dyn = "map[string]interface{}"

\* renderNode(b, n, indent): the text written to b.
RECURSIVE renderNode(_, _)
RECURSIVE renderKeys(_, _, _, _)
renderKeys(n, keys, i, indent) ==
    IF i > Len(keys) THEN <<>>
    ELSE (IF isMapStringInterface(n[keys[i]])
          THEN Spaces(indent) \o keys[i] \o <<":", "\n">>
                   \o renderNode(n[keys[i]].m, indent + 2)
          ELSE Spaces(indent) \o keys[i] \o <<":", " ">>
                   \o fmtValue(n[keys[i]]) \o <<"\n">>)
         \o renderKeys(n, keys, i + 1, indent)

renderNode(n, indent) == renderKeys(n, sortedKeys(DOMAIN n), 1, indent)

\* The rendering of Skeleton's tree root (lines 610-618).
skeletonText(req, root) ==
    IF root.dyn = "panic" THEN [err |-> FALSE, panic |-> TRUE, text |-> <<>>]
    ELSE [err |-> FALSE, panic |-> FALSE,
          text |-> IF req.Key # <<>>
                   THEN req.Key \o <<":", "\n">> \o renderNode(root.m, 2)
                   ELSE renderNode(root.m, 0)]

skeletonFrom(req, sp) ==
    IF sp.err THEN [err |-> TRUE, panic |-> FALSE, text |-> <<>>]
    ELSE skeletonText(req, buildTree(NodeVal(EmptyMap), sp.fields))

\* Skeleton(req): (text, err); panic when the tree construction panics.
SkeletonOf(rs, req) == skeletonFrom(req, SpecOf(rs, req))

\* The text of a token sequence.
RECURSIVE Text(_)
Text(s) == IF Len(s) = 0 THEN "" ELSE Head(s) \o Text(Tail(s))

----------------------------------------------------------------------------
(* The configuration document and the provider (go.uber.org/config) *)

\* A YAML node: a scalar with its resolved tag, or a mapping.
Scalar(tag, text) == [kind |-> "scalar", tag |-> tag, text |-> text, ents |-> EmptyMap]
Mapping(ents)     == [kind |-> "map", tag |-> "map", text |-> <<>>, ents |-> ents]
Missing           == [kind |-> "missing", tag |-> "null", text |-> <<>>, ents |-> EmptyMap]

\* One-entry and merged mappings, to write documents down.
Ent(k, v) == [x \in {<<k>>} |-> v]
Merge(f, g) == [x \in DOMAIN f \cup DOMAIN g |-> IF x \in DOMAIN g THEN g[x] ELSE f[x]]

\* p.Get(key): the subtree at key, the whole document for the root key "".
Get(doc, key) ==
    IF key = <<>> THEN doc.root
    ELSE IF doc.root.kind = "map" /\ key \in DOMAIN doc.root.ents THEN doc.root.ents[key]
    ELSE Missing

\* How yaml.v2 reads a struct field with tag parts parts: skipped, its key
\* (the tag's name, else the lower-cased field name), inline.
yamlFieldParts(f, parts) ==
    [skip   |-> (f.PkgPath # <<>> /\ ~f.Anonymous) \/ f.yaml = <<"-">>,
     name   |-> IF parts[1] # <<>> THEN parts[1] ELSE <<LowerFirst(f.Name)>>,
     inline |-> \E i \in 2..Len(parts) : parts[i] = <<"inline">>]

yamlField(f) == yamlFieldParts(f, Split(f.yaml, ","))

\* The document keys yaml.v2 binds to the fields of struct t, the promoted
\* keys of its inline structs included.
RECURSIVE yamlKeys(_)
yamlKeysOf(f, y) ==
    IF y.skip THEN {}
    ELSE IF ~y.inline THEN {y.name}
    ELSE IF Kind(Base(f.Type)) = "struct" THEN yamlKeys(Base(f.Type))
    ELSE {}

yamlKeys(t) == UNION {yamlKeysOf(Fields(t)[i], yamlField(Fields(t)[i])) : i \in 1..Len(Fields(t))}

\* Whether struct t has an inline map of its own, which takes the keys no
\* field takes (the inline map of an inlined struct takes none).
yamlInlineMapOf(f, y) == ~y.skip /\ y.inline /\ Kind(Base(f.Type)) = "map"

yamlInlineMap(t) ==
    \E i \in 1..Len(Fields(t)) : yamlInlineMapOf(Fields(t)[i], yamlField(Fields(t)[i]))

\* A bound Go value: whether it is the zero value and, for a struct, the
\* values of its fields by Go name.
Leaf(zero) == [zero |-> zero, sub |-> EmptyMap]

\* The field of a struct that has Go name n.
fieldNamed(fs, n) == fs[CHOOSE i \in 1..Len(fs) : fs[i].Name = n]
fieldNames(fs) == {fs[i].Name : i \in 1..Len(fs)}

RECURSIVE ZeroVal(_)
ZeroVal(t) ==
    IF Kind(t) = "struct"
    THEN [zero |-> TRUE,
          sub  |-> [n \in fieldNames(Fields(t)) |->
                       ZeroVal(Base(fieldNamed(Fields(t), n).Type))]]
    ELSE Leaf(TRUE)

\* The mapping node restricted to the keys ks.
restrict(node, ks) == Mapping([k \in DOMAIN node.ents \cap ks |-> node.ents[k]])

\* Populate(&v) for a value of type t: yaml.v2 decoding of the subtree,
\* strict (a key no field takes is an error) unless the provider was built
\* Permissive.
RECURSIVE yamlDecode(_, _, _)

\* The decoding of the mapping node into field f of a struct; y is
\* yamlField(f), ft the field's type without pointers.
decodeField(node, f, y, ft, strict) ==
    IF y.skip THEN [err |-> FALSE, val |-> ZeroVal(ft)]
    ELSE IF y.inline /\ Kind(ft) = "struct"
    THEN yamlDecode(restrict(node, yamlKeys(ft)), ft, FALSE)
    ELSE IF y.inline THEN [err |-> FALSE, val |-> Leaf(FALSE)]
    ELSE IF y.name \in DOMAIN node.ents THEN yamlDecode(node.ents[y.name], ft, strict)
    ELSE [err |-> FALSE, val |-> ZeroVal(ft)]

\* The decoded fields of a struct, by Go name.
decodeFields(node, fs, strict) ==
    [n \in fieldNames(fs) |->
        decodeField(node, fieldNamed(fs, n), yamlField(fieldNamed(fs, n)),
                    Base(fieldNamed(fs, n).Type), strict)]

\* The struct value and the error of a mapping decoded into struct t, d the
\* decoded fields.
decodeStruct(node, t, strict, d) ==
    [err |-> \/ \E n \in DOMAIN d : d[n].err
             \/ strict /\ ~yamlInlineMap(t) /\ ~(DOMAIN node.ents \subseteq yamlKeys(t))
             \/ /\ yamlInlineMap(t)
                /\ \E k \in DOMAIN node.ents \ yamlKeys(t) : node.ents[k].kind # "scalar",
     val |-> [zero |-> FALSE, sub |-> [n \in DOMAIN d |-> d[n].val]]]

yamlDecode(node, t, strict) ==
    IF node.kind = "missing" THEN [err |-> FALSE, val |-> ZeroVal(t)]
    ELSE IF Kind(t) = "struct" THEN
        IF node.kind # "map" THEN [err |-> TRUE, val |-> ZeroVal(t)]
        ELSE decodeStruct(node, t, strict, decodeFields(node, Fields(t), strict))
    ELSE IF Kind(t) = "string" THEN
        IF node.kind = "scalar" THEN [err |-> FALSE, val |-> Leaf(node.text = <<>>)]
        ELSE [err |-> TRUE, val |-> Leaf(TRUE)]
    ELSE IF Kind(t) = "int" THEN
        IF node.kind = "scalar" /\ node.tag = "int"
        THEN [err |-> FALSE, val |-> Leaf(node.text = <<"0">>)]
        ELSE [err |-> TRUE, val |-> Leaf(TRUE)]
    ELSE \* map[string]string
        IF node.kind = "map" THEN [err |-> FALSE, val |-> Leaf(DOMAIN node.ents = {})]
        ELSE [err |-> TRUE, val |-> Leaf(TRUE)]

----------------------------------------------------------------------------
(* Validation (go-playground/validator) and the issue formatter *)

\* One line of validator.ValidationErrors.Error() for the field with
\* namespace ns (Go names from the root type's name) that fails rule:
\*   Key: 'Config.Tls.Cert' Error:Field validation for 'Cert' failed on the 'required' tag
fieldErrorLine(ns, field, rule) ==
    <<"Key: ", "'">> \o ns \o <<"'", " Error:", "Field validation for ", "'", field, "'",
      " failed on the ", "'", rule, "'", " tag">>

\* The lines of the error validate.Struct returns for the fields of a struct
\* from the i-th on, under namespace ns, nested structs followed.
RECURSIVE validateFields(_, _, _, _)
validateField(val, f, ft, ns) ==
    IF f.PkgPath # <<>> THEN <<>>
    ELSE IF Kind(ft) = "struct"
    THEN validateFields(val.sub[f.Name], Fields(ft), 1, ns \o <<".", f.Name>>)
    ELSE IF hasRequired(f.validate) /\ val.sub[f.Name].zero
    THEN <<fieldErrorLine(ns \o <<".", f.Name>>, f.Name, "required")>>
    ELSE <<>>

validateFields(val, fs, i, ns) ==
    IF i > Len(fs) THEN <<>>
    ELSE validateField(val, fs[i], Base(fs[i].Type), ns)
         \o validateFields(val, fs, i + 1, ns)

validateLines(lines) == [failed |-> Len(lines) > 0, msg |-> Join(lines, "\n")]

\* validate.Struct(v): (failed, message).  A value that is no struct gives
\* an InvalidValidationError.
validateStruct(val, t) ==
    IF Kind(t) # "struct"
    THEN [failed |-> TRUE, msg |-> <<"validator: (nil ", "*">> \o TypeString(t) \o <<")">>]
    ELSE validateLines(validateFields(val, Fields(t), 1, TypeName(t)))

\* extractFieldAndRule: the rule, prev being the text before "' tag" and q
\* the place of its last quote (lines 431-437).
ruleOf(prev, k, q) == IF k > 0 /\ q > 0 THEN SubSeq(prev, q + 1, Len(prev)) ELSE <<>>

ruleBefore(rest, k) ==
    ruleOf(SubSeq(rest, 1, k - 1), k, LastIndex(SubSeq(rest, 1, k - 1), <<"'">>))

\* extractFieldAndRule: rest is the text after "Field validation for '" and
\* j the place of its first quote (lines 428-438).
fieldAndRule(rest, j) ==
    IF j = 0 THEN [field |-> <<>>, rule |-> <<>>]
    ELSE [field |-> SubSeq(rest, 1, j - 1),
          rule  |-> ruleBefore(rest, Index(rest, <<"'", " tag">>))]

fieldAndRuleAfter(rest) == fieldAndRule(rest, Index(rest, <<"'">>))

fieldAndRuleAt(s, i) ==
    IF i = 0 THEN [field |-> <<>>, rule |-> <<>>]
    ELSE fieldAndRuleAfter(SubSeq(s, i + 2, Len(s)))

\* extractFieldAndRule(s)
extractFieldAndRule(s) == fieldAndRuleAt(s, Index(s, <<"Field validation for ", "'">>))

NoField == Fld("", <<>>, <<>>, <<>>, <<>>, "string")

\* reflect.Type.FieldByName: a field of the struct, or one promoted from an
\* embedded struct; found is FALSE when there is none.
RECURSIVE FieldByName(_, _)
fieldAmong(fs, name, direct, emb) ==
    IF direct # {} THEN [found |-> TRUE, f |-> fs[CHOOSE i \in direct : TRUE]]
    ELSE IF Cardinality(emb) = 1
    THEN FieldByName(Base(fs[CHOOSE i \in emb : TRUE].Type), name)
    ELSE [found |-> FALSE, f |-> NoField]

fieldIn(fs, name) ==
    fieldAmong(fs, name,
               {i \in 1..Len(fs) : fs[i].Name = name},
               {i \in 1..Len(fs) : /\ fs[i].Anonymous
                                     /\ Kind(Base(fs[i].Type)) = "struct"
                                     /\ FieldByName(Base(fs[i].Type), name).found})

FieldByName(t, name) == fieldIn(Fields(t), name)

\* The loop of yamlPathFromStructNS over the segments (lines 459-481).
RECURSIVE nsWalk(_, _, _, _)
nsNext(segs, i, path2, next) ==
    IF Kind(next) # "struct" THEN Join(path2, ".") ELSE nsWalk(segs, i + 1, next, path2)

nsField(segs, i, path, f, p) ==
    nsNext(segs, i, IF p.inline THEN path ELSE Append(path, p.name), Base(f.Type))

nsFound(segs, i, path, r) ==
    IF ~r.found THEN Join(segs, ".")
    ELSE nsField(segs, i, path, r.f, parseYAMLTag(r.f.yaml, r.f))

nsWalk(segs, i, cur, path) ==
    IF i > Len(segs) THEN Join(path, ".")
    ELSE IF Len(segs[i]) # 1 THEN Join(segs, ".")
    ELSE nsFound(segs, i, path, FieldByName(cur, segs[i][1]))

\* The segments of ns without the root type's name in front (lines 453-456).
nsSegs(segs, root) == IF segs[1] = TypeName(root) THEN Tail(segs) ELSE segs

yamlPathFrom(ns, root) ==
    IF Kind(root) # "struct" \/ ns = <<>> THEN <<>>
    ELSE nsWalk(nsSegs(Split(ns, "."), root), 1, root, <<>>)

\* yamlPathFromStructNS(ns, root)
yamlPathFromStructNS(ns, root) == yamlPathFrom(ns, Base(root))

\* The issue of one line: "path: rule" (lines 409-414).
issueAt(fr, y) == <<(IF y = <<>> THEN fr.field ELSE y) \o <<": ">> \o fr.rule>>

issueOf(p, fr, root) ==
    IF fr.field # <<>> THEN issueAt(fr, yamlPathFromStructNS(fr.field, root)) ELSE <<p>>

issueOfLine(p, root) ==
    IF p = <<>> THEN <<>> ELSE issueOf(p, extractFieldAndRule(p), root)

\* The loop of formatValidationIssues over the lines (lines 402-418).
RECURSIVE issuesOf(_, _, _)
issuesOf(parts, i, root) ==
    IF i > Len(parts) THEN <<>>
    ELSE issueOfLine(TrimSpace(parts[i]), root) \o issuesOf(parts, i + 1, root)

\* formatValidationIssues(err, root): one issue per non-blank line of the message.
formatValidationIssues(msg, root) == issuesOf(Split(msg, "\n"), 1, root)

----------------------------------------------------------------------------
(* Unknown keys *)

\* What findUnknownKeys writes to its allowed map for field f with parsed
\* tag p (lines 512-524, 537-545): nothing for an unexported, excluded or
\* inline field.
allowedWrite(f, p) ==
    IF f.PkgPath = <<>> /\ p.name # <<"-">> /\ ~p.inline
    THEN <<[name |-> p.name, f |-> f]>> ELSE <<>>

RECURSIVE ownWrites(_, _)
ownWrites(fs, i) ==
    IF i > Len(fs) THEN <<>>
    ELSE allowedWrite(fs[i], parseYAMLTag(fs[i].yaml, fs[i])) \o ownWrites(fs, i + 1)

\* The writes for the fields of an inline struct field f (lines 527-547).
inlineWrite(f, p) ==
    IF f.PkgPath = <<>> /\ p.name # <<"-">> /\ p.inline /\ Kind(Base(f.Type)) = "struct"
    THEN ownWrites(Fields(Base(f.Type)), 1) ELSE <<>>

RECURSIVE inlineWrites(_, _)
inlineWrites(fs, i) ==
    IF i > Len(fs) THEN <<>>
    ELSE inlineWrite(fs[i], parseYAMLTag(fs[i].yaml, fs[i])) \o inlineWrites(fs, i + 1)

\* The map the writes w leave: external name -> the field last written.
allowedFrom(w) ==
    [n \in {w[i].name : i \in 1..Len(w)} |->
        w[CHOOSE i \in 1..Len(w) :
              w[i].name = n /\ \A k \in 1..Len(w) : w[k].name = n => k <= i].f]

\* The allowed map of findUnknownKeys (lines 508-547).
allowedFields(t) == allowedFrom(ownWrites(Fields(t), 1) \o inlineWrites(Fields(t), 1))

RECURSIVE findUnknownKeys(_, _, _)

\* The body of findUnknownKeys's loop for key ks with value v (lines 550-574).
unknownAt(ks, v, allowed, path) ==
    IF ks \notin DOMAIN allowed THEN <<path>>
    ELSE IF Kind(Base(allowed[ks].Type)) = "struct"
    THEN findUnknownKeys(v, Base(allowed[ks].Type), path)
    ELSE <<>>

RECURSIVE unknownIn(_, _, _, _, _)
unknownIn(y, keys, i, allowed, prefix) ==
    IF i > Len(keys) THEN <<>>
    ELSE unknownAt(keys[i], y.ents[keys[i]], allowed,
                   IF prefix = <<>> THEN keys[i] ELSE prefix \o <<".">> \o keys[i])
         \o unknownIn(y, keys, i + 1, allowed, prefix)

unknownOf(y, t, prefix) ==
    IF Kind(t) # "struct" \/ y.kind # "map" THEN <<>>
    ELSE SortStrings(unknownIn(y, sortedKeys(DOMAIN y.ents), 1, allowedFields(t), prefix))

\* findUnknownKeys(y, t, prefix)
findUnknownKeys(y, t, prefix) == unknownOf(y, Base(t), prefix)

----------------------------------------------------------------------------
(* Check *)

CheckResult(key, type, ok, err, issues, unknown) ==
    [Key |-> key, Type |-> type, OK |-> ok, Err |-> err, Issues |-> issues,
     Unknown |-> unknown]

\* The result of one entry with ok left true by unknown keys.
checkResult_IgnoreUnknown(r, err, issues, unknown) ==
    CheckResult(r.key, DisplayType(r.base), err = "", err, issues, unknown)

\* The result of one entry (lines 359-368); err is "" for a nil error.
checkResult(r, err, issues, unknown) ==
    CheckResult(r.key, DisplayType(r.base), err = "" /\ Len(unknown) = 0, err, issues,
                unknown)

\* Lines 345-358: the validation of the bound value, when Populate
\* returned no error, and the unknown keys of the raw subtree.
checkValidated(r, raw, pop, v) ==
    checkResult(r,
                IF pop.err THEN "populate" ELSE IF v.failed THEN "validate" ELSE "",
                IF ~pop.err /\ v.failed THEN formatValidationIssues(v.msg, r.base) ELSE <<>>,
                findUnknownKeys(raw, r.base, <<>>))

checkPopulated(r, raw, pop) == checkValidated(r, raw, pop, validateStruct(pop.val, r.base))

\* The body of Check's loop for one snapshot entry (lines 341-368).
checkEntry(r, raw, strict) == checkPopulated(r, raw, yamlDecode(raw, r.base, strict))

checkOne(r, doc) == checkEntry(r, Get(doc, r.key), doc.strict)

\* The loop of Check leaving at the first entry that is not OK.
checkLoop_StopAtFailure(snapshot, doc) ==
    SubSeq([i \in 1..Len(snapshot) |-> checkOne(snapshot[i], doc)], 1,
           IF \E i \in 1..Len(snapshot) : ~checkOne(snapshot[i], doc).OK
           THEN CHOOSE i \in 1..Len(snapshot) :
                    /\ ~checkOne(snapshot[i], doc).OK
                    /\ \A j \in 1..(i-1) : checkOne(snapshot[j], doc).OK
           ELSE Len(snapshot))

\* The loop of Check over its snapshot (line 340).
checkLoop(snapshot, doc) == [i \in 1..Len(snapshot) |-> checkOne(snapshot[i], doc)]

\* Check(p): the results for a snapshot of the registry, sorted by (Key, Type).
CheckOf(rs, doc) == SortStableKeyType(checkLoop(rs, doc))

----------------------------------------------------------------------------
(* Redact (redact.go) *)

\* For Redact a Go string is the sequence of its characters, so that
\* strings.ToLower and strings.Contains work on it as they do in Go.
LowerChar(c) ==
    CASE c = "A" -> "a" [] c = "E" -> "e" [] c = "K" -> "k" [] c = "N" -> "n"
      [] c = "O" -> "o" [] c = "P" -> "p" [] c = "S" -> "s" [] c = "T" -> "t"
      [] c = "Y" -> "y" [] OTHER -> c

\* strings.ToLower
ToLower(s) == [i \in 1..Len(s) |-> LowerChar(s[i])]

\* strings.Contains
Contains(s, sub) == Index(s, sub) > 0

secretWords ==
    << <<"p", "a", "s", "s", "w", "o", "r", "d">>, <<"s", "e", "c", "r", "e", "t">>,
       <<"t", "o", "k", "e", "n">>, <<"a", "p", "i", "k", "e", "y">>, <<"k", "e", "y">>,
       <<"d", "s", "n">>, <<"c", "o", "o", "k", "i", "e">>,
       <<"b", "e", "a", "r", "e", "r">> >>

\* A Go value of static type any: dyn is its dynamic type.  A map key is a
\* value too: kt is its dynamic type and s its text (what fmt.Sprint prints).
GoString(s) == [dyn |-> "string", s |-> s, m |-> EmptyMap, l |-> <<>>]
GoInt(s)    == [dyn |-> "int", s |-> s, m |-> EmptyMap, l |-> <<>>]
GoNil       == [dyn |-> "nil", s |-> <<>>, m |-> EmptyMap, l |-> <<>>]
MapStringAny(m)    == [dyn |-> "map[string]any", s |-> <<>>, m |-> m, l |-> <<>>]
MapAnyAny(m)       == [dyn |-> "map[any]any", s |-> <<>>, m |-> m, l |-> <<>>]
MapStringString(m) == [dyn |-> "map[string]string", s |-> <<>>, m |-> m, l |-> <<>>]
SliceAny(l)        == [dyn |-> "[]any", s |-> <<>>, m |-> EmptyMap, l |-> l]
StrKey(s) == [kt |-> "string", s |-> s]
IntKey(s) == [kt |-> "int", s |-> s]

\* asString(v): the string itself, fmt.Sprint(v) for any other key.
asString(k) == StrKey(k.s)

\* isSecretKey(k)
isSecretKey(k) ==
    \E i \in 1..Len(secretWords) : Contains(ToLower(k.s), secretWords[i])

\* The maps a loop "for k, val := range t { out[f(k)] = g(val) }" can leave,
\* cands[k] being the values g(val) can take: when f sends two keys to one
\* key, the entry written last stays, and Go leaves the order of a range
\* over a map open.
rangeWrites(t, cands) ==
    { out \in [ {asString(k) : k \in DOMAIN t}
                  -> UNION {cands[k] : k \in DOMAIN t} ] :
        \A s \in DOMAIN out : \E k \in DOMAIN t : asString(k) = s /\ out[s] \in cands[k] }

\* The slices a loop "for i, val := range t { out[i] = g(val) }" can leave.
sliceWrites(t, cands) ==
    { out \in [1..Len(t) -> UNION {cands[i] : i \in 1..Len(t)}] :
        \A i \in 1..Len(t) : out[i] \in cands[i] }

\* normalize(v): the values it can return.
RECURSIVE normalize(_)
normalize(v) ==
    IF v.dyn \in {"map[any]any", "map[string]any"}
    THEN {MapStringAny(out) : out \in rangeWrites(v.m, [k \in DOMAIN v.m |-> normalize(v.m[k])])}
    ELSE IF v.dyn = "[]any"
    THEN {SliceAny(out) : out \in sliceWrites(v.l, [i \in 1..Len(v.l) |-> normalize(v.l[i])])}
    ELSE {v}

mask == GoString(<<"*", "*", "*">>)

\* redact(v)
RECURSIVE redact(_)
redact(v) ==
    IF v.dyn = "map[string]any"
    THEN MapStringAny([k \in DOMAIN v.m |-> IF isSecretKey(k) THEN mask ELSE redact(v.m[k])])
    ELSE IF v.dyn = "[]any"
    THEN SliceAny([i \in 1..Len(v.l) |-> redact(v.l[i])])
    ELSE v

\* Redact(key, v): the values it can return.
RedactOf(v) == {redact(n) : n \in normalize(v)}

----------------------------------------------------------------------------
(* The loaders (config.go: load, fileOptions; loader.go: NewYAML) *)

\* What a path names in the file system: nothing, a directory, a regular
\* file with its YAML content, or a character device that reads as empty
\* (/dev/null).
Absent        == [kind |-> "absent", content |-> Missing]
Dir           == [kind |-> "dir", content |-> Missing]
Regular(node) == [kind |-> "file", content |-> node]
Device        == [kind |-> "device", content |-> Missing]

\* os.Stat(path): err == nil && !fi.IsDir()
statIsFile(fs, path) == fs[path].kind # "absent" /\ fs[path].kind # "dir"

\* uber.File(path) and uber.Source(reader)
File(path)      == [opt |-> "file", path |-> path, content |-> Missing]
Source(content) == [opt |-> "source", path |-> <<>>, content |-> content]

\* The content uber.NewYAML reads from a source; Missing for an empty one.
readSource(fs, o) == IF o.opt = "file" THEN fs[o.path].content ELSE o.content

\* go.uber.org/config merge of a higher-priority value into a lower one
\* (strict, the default): mappings are merged key by key, a scalar replaces
\* a scalar, values of different kinds cannot be merged.
RECURSIVE uberMerge(_, _)
uberMergeMapping(into, from, both) ==
    [err  |-> \E k \in DOMAIN both : both[k].err,
     node |-> Mapping([k \in DOMAIN into.ents \cup DOMAIN from.ents |->
                          IF k \in DOMAIN both THEN both[k].node
                          ELSE IF k \in DOMAIN from.ents THEN from.ents[k]
                          ELSE into.ents[k]])]

uberMerge(into, from) ==
    IF into.kind = "missing" THEN [err |-> FALSE, node |-> from]
    ELSE IF into.kind = "scalar" /\ from.kind = "scalar" THEN [err |-> FALSE, node |-> from]
    ELSE IF into.kind = "map" /\ from.kind = "map"
    THEN uberMergeMapping(into, from,
                          [k \in DOMAIN into.ents \cap DOMAIN from.ents |->
                              uberMerge(into.ents[k], from.ents[k])])
    ELSE [err |-> TRUE, node |-> Missing]

\* The sources from the i-th on merged into acc; an empty source is skipped.
RECURSIVE uberMergeFrom(_, _, _, _)
uberMergeNext(fs, opts, i, r) ==
    IF r.err THEN r ELSE uberMergeFrom(fs, opts, i + 1, r.node)

uberMergeSource(fs, opts, i, acc, content) ==
    IF content.kind = "missing" THEN uberMergeFrom(fs, opts, i + 1, acc)
    ELSE uberMergeNext(fs, opts, i, uberMerge(acc, content))

uberMergeFrom(fs, opts, i, acc) ==
    IF i > Len(opts) THEN [err |-> FALSE, node |-> acc]
    ELSE uberMergeSource(fs, opts, i, acc, readSource(fs, opts[i]))

\* The provider a loader returns, or the error.
NoProvider == [err |-> TRUE, provider |-> [root |-> Missing, strict |-> TRUE]]
providerOf(r) ==
    IF r.err THEN NoProvider
    ELSE [err |-> FALSE, provider |-> [root |-> r.node, strict |-> TRUE]]

\* uber.NewYAML(opts...); the documents of the model hold no ${...}
\* placeholder, so uber.Expand leaves them as they are.
uberNewYAML(fs, opts) == providerOf(uberMergeFrom(fs, opts, 1, Missing))

configYml      == <<"config", "/", "config", ".yml">>
configLocalYml == <<"config", "/", "config.local", ".yml">>
serviceYml(name) == <<"config", "/">> \o name \o <<".yml">>

\* fileOptions("config"): the files to look for, then those that are there.
fileOptionsFiles(name) ==
    <<configYml, configLocalYml>>
    \o (IF TrimSpace(name) # <<>> THEN <<serviceYml(TrimSpace(name))>> ELSE <<>>)

RECURSIVE fileOptionsFrom(_, _, _)
fileOptionsFrom(fs, files, i) ==
    IF i > Len(files) THEN <<>>
    ELSE (IF statIsFile(fs, files[i]) THEN <<File(files[i])>> ELSE <<>>)
         \o fileOptionsFrom(fs, files, i + 1)

fileOptions(fs, name) == fileOptionsFrom(fs, fileOptionsFiles(name), 1)

\* load with the custom sources first: the order NewYAML would give them.
load_ExtraLast(fs, name, extra) == uberNewYAML(fs, fileOptions(fs, name) \o extra)

\* load(extra...)
load(fs, name, extra) == uberNewYAML(fs, extra \o fileOptions(fs, name))

\* DefaultSources()
DefaultSources(fs) == IF statIsFile(fs, configYml) THEN <<File(configYml)>> ELSE <<>>

\* NewYAML(ctx, opts...): config is os.LookupEnv("CONFIG"), the path and
\* whether the variable is set.
NewYAMLChain(fs, config, extra) ==
    DefaultSources(fs) \o (IF config.set THEN <<File(config.path)>> ELSE <<>>) \o extra

NewYAMLOf(fs, config, extra) ==
    IF config.set /\ ~statIsFile(fs, config.path) THEN NoProvider
    ELSE uberNewYAML(fs, NewYAMLChain(fs, config, extra))

----------------------------------------------------------------------------
(* stackctl config check (cmd/stackctl) *)

\* knownTypes once the init hooks of the linked modules have run
\* RegisterKnown: a key and the type behind the sample's pointers.
KnownTypes ==
    (<<"db">> :> "DB") @@ (<<"srv">> :> "SRV") @@ (<<"mix">> :> "MIX")
    @@ (<<"addr">> :> "Addr")

\* The keys of knownTypes in an order the map is ranged over.
KnownKeys == << <<"srv">>, <<"db">>, <<"mix">>, <<"addr">> >>

\* KnownType(key): whether the key is known; KnownTypes[key] is its type.
KnownType(key) == key \in DOMAIN KnownTypes

\* Known(): the known keys, sorted.
Known == SortStrings(KnownKeys)

NoOpts == [key |-> <<>>, all |-> FALSE, cfgRef |-> <<>>]

\* What runConfigCheck leaves behind: the registry, the results of Check,
\* whether it returned an error that is no exitError, and the exit status
\* main ends the process with.
checkRun(seen, entries, results, err, exit) ==
    [seen |-> seen, entries |-> entries, results |-> results, err |-> err, exit |-> exit]

\* validateCheckArgs(opts): whether it returns an error.
validateCheckArgs(opts) == ~opts.all /\ opts.key = <<>>

\* collectKeys(single, all)
collectKeys(single, all) ==
    IF all THEN [err |-> Len(Known) = 0, keys |-> Known]
    ELSE [err |-> FALSE, keys |-> <<single>>]

\* Lines 108-112: RegisterRequirementType for the selected keys that are known.
RECURSIVE registerSelected(_, _, _, _)
registerSelected(seen, entries, keys, i) ==
    IF i > Len(keys) THEN [seen |-> seen, entries |-> entries]
    ELSE IF KnownType(keys[i]) /\ typeKey(keys[i], KnownTypes[keys[i]]) \notin seen
    THEN registerSelected(seen \cup {typeKey(keys[i], KnownTypes[keys[i]])},
                          Append(entries, reqEntry(keys[i], KnownTypes[keys[i]])),
                          keys, i + 1)
    ELSE registerSelected(seen, entries, keys, i + 1)

\* loadProvider(ctx, cfgRef); uber.File of a path that cannot be read makes
\* uber.NewYAML fail.
loadProvider(env, cfgRef) ==
    IF cfgRef = <<>> THEN NewYAMLOf(env.fs, env.config, <<>>)
    ELSE IF env.fs[cfgRef].kind \in {"absent", "dir"} THEN NoProvider
    ELSE NewYAMLOf(env.fs, env.config, <<File(cfgRef)>>)

\* Lines 126-154: the exit code after the results from i on, code so far.
RECURSIVE exitCodeFrom(_, _, _, _)
exitCodeFrom(results, selected, i, code) ==
    IF i > Len(results) THEN code
    ELSE IF results[i].Key \notin selected \/ results[i].OK
    THEN exitCodeFrom(results, selected, i + 1, code)
    ELSE IF Len(results[i].Issues) > 0 \/ results[i].Err # ""
    THEN exitCodeFrom(results, selected, i + 1, 1)
    ELSE exitCodeFrom(results, selected, i + 1, code)

\* Lines 119-159: Check, the report, and the exit status.
checkReport(reg, results, keys) ==
    checkRun(reg.seen, reg.entries, results, FALSE,
             exitCodeFrom(results, Range(keys), 1, 0))

\* Lines 114-119: the provider, then Check on the registry.
checkLoaded(reg, loaded, keys) ==
    IF loaded.err THEN checkRun(reg.seen, reg.entries, <<>>, TRUE, 1)
    ELSE checkReport(reg, CheckOf(reg.entries, loaded.provider), keys)

\* Lines 102-117: the keys, their registration, the provider.
checkKeys(seen, entries, opts, env, c) ==
    IF c.err THEN checkRun(seen, entries, <<>>, TRUE, 1)
    ELSE checkLoaded(registerSelected(seen, entries, c.keys, 1),
                     loadProvider(env, opts.cfgRef), c.keys)

\* runConfigCheck(cmd, opts), and main's os.Exit; writes to the output
\* succeed.
runConfigCheck(seen, entries, opts, env) ==
    IF validateCheckArgs(opts) THEN checkRun(seen, entries, <<>>, TRUE, 1)
    ELSE checkKeys(seen, entries, opts, env, collectKeys(opts.key, opts.all))

----------------------------------------------------------------------------
(* The inputs *)

str(x) == Scalar("str", <<x>>)
int(x) == Scalar("int", <<x>>)

dbGood    == Mapping(Merge(Ent("host", str("localhost")), Ent("port", int("5432"))))
dbNoHost  == Mapping(Ent("port", int("5432")))
dbExtra   == Mapping(Merge(dbGood.ents, Ent("extra", Scalar("bool", <<"true">>))))
dbBadPort == Mapping(Merge(Ent("host", str("localhost")), Ent("port", str("abc"))))
srvGood   == Mapping(Merge(Merge(Ent("name", str("api")),
                                 Ent("tls", Mapping(Ent("cert", str("pem"))))),
                           Merge(Ent("region", str("eu")),
                                 Ent("labels", Mapping(Ent("extra", str("x")))))))
srvZone   == Mapping(Merge(srvGood.ents, Ent("zone", str("a"))))
srvBogus  == Mapping(Merge(Ent("name", str("api")),
                           Ent("tls", Mapping(Merge(Ent("cert", str("pem")),
                                                    Ent("bogus", int("1")))))))
addrNone  == Mapping(Ent("port", int("1")))
mixRest   == Mapping(Merge(Ent("name", str("m")), Ent("extra", str("x"))))

\* The documents handed to Check: the root mappings below, each read by a
\* strict provider (the default of go.uber.org/config) and by a permissive
\* one.
\*   db: {host: localhost, port: 5432}
\*   srv: {name: api, tls: {cert: pem}, region: eu, labels: {extra: x}}
\*   addr: localhost
\*   port: 5432
docValid ==
    Mapping(Merge(Merge(Ent("db", dbGood), Ent("srv", srvGood)),
                  Merge(Ent("addr", str("localhost")), Ent("port", int("5432")))))
\*   db: {port: 5432}
\*   srv: {name: api, tls: {cert: pem}, region: eu, labels: {extra: x}, zone: a}
\*   mix: {name: m, extra: x}
docMissing ==
    Mapping(Merge(Merge(Ent("db", dbNoHost), Ent("srv", srvZone)), Ent("mix", mixRest)))
\*   db: {host: localhost, port: 5432, extra: true}
\*   srv: {name: api, tls: {cert: pem, bogus: 1}}
\*   addr: {port: 1}
docUnknown ==
    Mapping(Merge(Merge(Ent("db", dbExtra), Ent("srv", srvBogus)), Ent("addr", addrNone)))
\*   db: {host: localhost, port: abc}
docBadPort == Mapping(Ent("db", dbBadPort))
\*   addr: localhost
\*   port: 5432
docRoot == Mapping(Merge(Ent("addr", str("localhost")), Ent("port", int("5432"))))

Roots == {docValid, docMissing, docUnknown, docBadPort, docRoot}

Docs == {[root |-> r, strict |-> st] : r \in Roots, st \in BOOLEAN}

\* The requirements handed to Spec and Skeleton: those Requirements() can
\* return, and the same types under a key that is never registered.
Queries ==
    {Requirement(p[1], DisplayType(Base(p[2])), PkgPath(Base(p[2]))) : p \in RegPairs}
    \cup {Requirement(<<"cache">>, DisplayType(t), PkgPath(t)) : t \in {"DB", "SRV"}}

\* The values handed to Redact: mappings of up to two entries with string
\* and non-string keys, over leaves and a map of a type Redact does not know,
\* and the same one level down in a mapping, under a secret key and in a
\* sequence.
kUser     == StrKey(<<"u", "s", "e", "r">>)
kPassword == StrKey(<<"P", "a", "s", "s", "w", "o", "r", "d">>)
kApiKey   == StrKey(<<"A", "P", "I", "_", "K", "E", "Y">>)
kDatabase == StrKey(<<"d", "a", "t", "a", "b", "a", "s", "e">>)
kToken    == StrKey(<<"t", "o", "k", "e", "n">>)
kOne      == StrKey(<<"1">>)
kOneInt   == IntKey(<<"1">>)

vSvc    == GoString(<<"s", "v", "c">>)
vSecret == GoString(<<"s", "e", "c", "r", "e", "t">>)
vTyped  == MapStringString([k \in {kPassword} |-> vSecret])

MaxEntries == 2

RedactLeaves == {vSvc, vSecret, vTyped}

mapsOver(keys, vals) ==
    UNION {[ks -> vals] : ks \in {x \in SUBSET keys : Cardinality(x) <= MaxEntries}}

RedactFlat ==
    {MapStringAny(m) : m \in mapsOver({kUser, kPassword, kApiKey, kOne}, RedactLeaves)}
    \cup {MapAnyAny(m) : m \in mapsOver({kUser, kPassword, kOne, kOneInt}, RedactLeaves)}

RedactInputs ==
    RedactLeaves \cup RedactFlat
    \cup {MapStringAny([k \in {kDatabase} |-> f]) : f \in RedactFlat}
    \cup {MapAnyAny([k \in {kToken, kUser} |-> f]) : f \in RedactFlat}
    \cup {SliceAny(<<f, vSvc>>) : f \in RedactFlat}

\* The environments of the loaders: what the paths name, runtimeinfo.Name,
\* $CONFIG, and the sources handed in through WithSources.
\*   x: 1, m: {a: 1}      x: 2, m: {b: 2}      m: {a: 3}      m: 5
srcA == Mapping(Merge(Ent("x", int("1")), Ent("m", Mapping(Ent("a", int("1"))))))
srcB == Mapping(Merge(Ent("x", int("2")), Ent("m", Mapping(Ent("b", int("2"))))))
srcC == Mapping(Ent("m", Mapping(Ent("a", int("3")))))
srcD == Mapping(Ent("m", int("5")))

Contents == {srcA, srcB, srcC, srcD}

envYml == <<"env", ".yml">>
Paths  == {configYml, configLocalYml, serviceYml(<<"svc">>), envYml}

FileStates == {Absent, Dir, Device} \cup {Regular(c) : c \in Contents}

MaxSources == 2

Extras ==
    UNION {[1..n -> {Source(c) : c \in Contents}] : n \in 0..MaxSources}

Unset == [set |-> FALSE, path |-> <<>>]

NoEnv == [fs |-> [p \in Paths |-> Absent], name |-> <<>>, config |-> Unset, extra |-> <<>>]

\* The command lines of config check, and the files it finds: --key with a
\* known key, an unknown one or none, --all, --config with env.yml or
\* without, and config/config.yml and env.yml absent or holding a document.
CheckOpts ==
    {[key |-> k, all |-> a, cfgRef |-> c] :
        k \in DOMAIN KnownTypes \cup {<<>>, <<"cache">>},
        a \in BOOLEAN,
        c \in {<<>>, envYml}}

CheckFiles == {Absent} \cup {Regular(r) : r \in Roots}

CheckEnvs ==
    {[fs     |-> [p \in Paths |-> IF p = configYml THEN f[1]
                                  ELSE IF p = envYml THEN f[2] ELSE Absent],
      name   |-> <<>>,
      config |-> Unset,
      extra  |-> <<>>] :
        f \in CheckFiles \X CheckFiles}

\* Module: the three files of the config directory, the service name.
LoadEnvs ==
    {[fs     |-> [p \in Paths |-> IF p = configYml THEN f[1]
                                  ELSE IF p = configLocalYml THEN f[2]
                                  ELSE IF p = envYml THEN Absent ELSE f[3]],
      name   |-> n,
      config |-> Unset,
      extra  |-> x] :
        f \in FileStates \X FileStates \X FileStates,
        n \in {<<>>, <<"svc">>},
        x \in Extras}

\* The command-line loader: the default file, $CONFIG and the file it names.
NewYAMLEnvs ==
    {[fs     |-> [p \in Paths |-> IF p = configYml THEN f[1]
                                  ELSE IF p = envYml THEN f[2] ELSE Absent],
      name   |-> <<>>,
      config |-> c,
      extra  |-> x] :
        f \in FileStates \X FileStates,
        c \in {Unset, [set |-> TRUE, path |-> envYml]},
        x \in Extras}

----------------------------------------------------------------------------
(* The operations *)

NoPrev == [n |-> 0, last |-> <<>>, before |-> <<>>]

\* The argument of an operation: the key and type of a registration, the
\* Requirement of Spec and Skeleton, the document of Check, the value of
\* Redact, the environment of a loader.
NoArg ==
    [key |-> <<>>, t |-> "nil",
     req |-> Requirement(<<>>, <<>>, <<>>),
     doc |-> [root |-> Missing, strict |-> FALSE],
     v |-> GoNil,
     env |-> NoEnv,
     opts |-> NoOpts]

\* The result of an operation: the list of Requirements(), the results of
\* Check, the fields and error of Spec, the text and error of Skeleton, the
\* value of Redact, the provider of a loader.
NoRet ==
    [list |-> <<>>, results |-> <<>>, fields |-> <<>>, text |-> <<>>,
     err |-> FALSE, panic |-> FALSE, v |-> GoNil,
     provider |-> NoProvider.provider, exit |-> 0]

\* reqMu when no goroutine holds it.
Free == 0

Goroutines == 1..NumGoroutines

\* The state of a goroutine: where it is in the function it runs (pc), the
\* function's argument, its locals (match of Spec, snapshot of Check), the
\* function that returned last (op) and what it returned.
NoGoroutine ==
    [pc |-> "idle", op |-> "init", arg |-> NoArg, match |-> 0,
     snapshot |-> <<>>, ret |-> NoRet]

\* No Shutdown has been made.  Of a Shutdown: whether each context is
\* cancelled, the tracked goroutines, the TriggerGraceful calls so far, where
\* Wait is and its timeout, the goroutine it starts, and its timer; whether
\* it listens for signals, where the handler goroutine is, the signals in
\* its channel, the signals sent to the process and those the handler has
\* received, and whether a signal has terminated the process.
NoShutdown ==
    [made |-> FALSE, graceful |-> FALSE, force |-> FALSE,
     workers |-> [w \in 1..MaxWorkers |-> [st |-> "none", kind |-> "graceful"]],
     triggers |-> 0, wait |-> "idle", timeout |-> 0, helper |-> "none",
     timerOn |-> FALSE, remaining |-> 0,
     listen |-> FALSE, handler |-> "none", ch |-> 0, signals |-> 0,
     handled |-> 0, killed |-> FALSE]

\* A health response: none yet.  Of a response: the HTTP status code, the
\* fields of the JSON body, and where the lifecycle was when the handler
\* began and when it wrote.
NoResponse ==
    [code |-> 0, status |-> "", live |-> FALSE, ready |-> FALSE,
     from |-> "none", to |-> "none"]

\* No Health has been made.  Of a Health: its two atomic.Bool, how far the
\* lifecycle hooks and the startup-delay goroutine are, the handler's
\* position with the value of live it has loaded, the requests served and
\* the last response.
NoHealth ==
    [made |-> FALSE, live |-> FALSE, ready |-> FALSE,
     start |-> "none", sleeper |-> "none", stop |-> "none",
     handler |-> "idle", loaded |-> FALSE, from |-> "none",
     requests |-> 0, resp |-> NoResponse]

\* The state after package initialisation, a being the input of the
\* operation to come.
InitWith(a) ==
    /\ reqSeen = {}
    /\ reqs = <<>>
    /\ registered = {}
    /\ calls = 0
    /\ op = "init"
    /\ arg = a
    /\ ret = NoRet
    /\ prevReqs = NoPrev
    /\ cleared = {}
    /\ reqMu = Free
    /\ goroutines = [g \in Goroutines |-> NoGoroutine]
    /\ started = 0
    /\ shutdown = NoShutdown
    /\ health = NoHealth

Init == InitWith(NoArg)

\* registerRequirementType without the reqSeen test: every call appends.
registerRequirementType_NoDedupe(key, tt) ==
    /\ calls < MaxCalls
    /\ reqSeen' = reqSeen \cup {typeKey(key, tt)}
    /\ reqs' = Append(reqs, reqEntry(key, tt))
    /\ registered' = registered \cup {<<key, tt>>}
    /\ calls' = calls + 1
    /\ op' = "register"
    /\ arg' = [NoArg EXCEPT !.key = key, !.t = tt]
    /\ ret' = NoRet
    /\ prevReqs' = NoPrev
    /\ UNCHANGED processes
    /\ cleared' = IF op = "reset" THEN cleared ELSE {}

\* registerRequirementType(key, tt)
registerRequirementType(key, tt) ==
    /\ calls < MaxCalls
    /\ IF typeKey(key, tt) \notin reqSeen
       THEN /\ reqSeen' = reqSeen \cup {typeKey(key, tt)}
            /\ reqs' = Append(reqs, reqEntry(key, tt))
       ELSE UNCHANGED <<reqSeen, reqs>>
    /\ registered' = registered \cup {<<key, tt>>}
    /\ calls' = calls + 1
    /\ op' = "register"
    /\ arg' = [NoArg EXCEPT !.key = key, !.t = tt]
    /\ ret' = NoRet
    /\ prevReqs' = NoPrev
    /\ UNCHANGED processes
    /\ cleared' = IF op = "reset" THEN cleared ELSE {}

\* A call that returns before it registers anything (a nil sample or type).
registerNothing(key) ==
    /\ op' = "register"
    /\ arg' = [NoArg EXCEPT !.key = key]
    /\ ret' = NoRet
    /\ prevReqs' = NoPrev
    /\ UNCHANGED <<reqSeen, reqs, registered, calls>>
    /\ UNCHANGED processes
    /\ cleared' = IF op = "reset" THEN cleared ELSE {}

\* RegisterRequirement(key, sample): sample is a value of type tt, or nil.
RegisterRequirement(key, tt) ==
    IF tt = "nil" THEN registerNothing(key) ELSE registerRequirementType(key, tt)

\* RegisterRequirementType(key, tt)
RegisterRequirementType(key, tt) ==
    IF tt = "nil" THEN registerNothing(key) ELSE registerRequirementType(key, tt)

\* ProvideFromKey[T](key): registerRequirementFor[T](key)
ProvideFromKey(key, tt) == registerRequirementType(key, tt)

\* ResetDiscoveryForTests that leaves reqSeen as it is.
ResetDiscoveryForTests_KeepSeen ==
    /\ reqSeen' = reqSeen
    /\ reqs' = <<>>
    /\ registered' = {}
    /\ calls' = 0
    /\ op' = "reset"
    /\ arg' = NoArg
    /\ ret' = NoRet
    /\ prevReqs' = NoPrev
    /\ UNCHANGED processes
    /\ cleared' = registered

\* ResetDiscoveryForTests()
ResetDiscoveryForTests ==
    /\ reqSeen' = {}
    /\ reqs' = <<>>
    /\ registered' = {}
    /\ calls' = 0
    /\ op' = "reset"
    /\ arg' = NoArg
    /\ ret' = NoRet
    /\ prevReqs' = NoPrev
    /\ UNCHANGED processes
    /\ cleared' = registered

\* Requirements()
Requirements ==
    /\ op' = "Requirements"
    /\ arg' = NoArg
    /\ ret' = [NoRet EXCEPT !.list = RequirementsOf(reqs)]
    /\ prevReqs' = [n      |-> IF prevReqs.n = 0 THEN 1 ELSE 2,
                    last   |-> RequirementsOf(reqs),
                    before |-> prevReqs.last]
    /\ UNCHANGED <<reqSeen, reqs, registered, calls>>
    /\ UNCHANGED processes
    /\ cleared' = {}

\* Check(p)
Check(doc) ==
    /\ op' = "Check"
    /\ arg' = [NoArg EXCEPT !.doc = doc]
    /\ ret' = [NoRet EXCEPT !.results = CheckOf(reqs, doc)]
    /\ UNCHANGED <<reqSeen, reqs, registered, calls, prevReqs>>
    /\ UNCHANGED processes
    /\ cleared' = {}

\* The result of Spec as the operation returns it.
specRet(r) == [NoRet EXCEPT !.err = r.err, !.fields = r.fields]

\* Spec(req)
Spec_(req) ==
    /\ op' = "Spec"
    /\ arg' = [NoArg EXCEPT !.req = req]
    /\ ret' = specRet(SpecOf(reqs, req))
    /\ UNCHANGED <<reqSeen, reqs, registered, calls, prevReqs>>
    /\ UNCHANGED processes
    /\ cleared' = {}

\* The result of Skeleton as the operation returns it.
skeletonRet(r) == [NoRet EXCEPT !.err = r.err, !.panic = r.panic, !.text = r.text]

\* Skeleton(req)
Skeleton(req) ==
    /\ op' = "Skeleton"
    /\ arg' = [NoArg EXCEPT !.req = req]
    /\ ret' = skeletonRet(SkeletonOf(reqs, req))
    /\ UNCHANGED <<reqSeen, reqs, registered, calls, prevReqs>>
    /\ UNCHANGED processes
    /\ cleared' = {}

\* Redact(key, v); the key takes no part in the result.
Redact(v) ==
    /\ \E r \in RedactOf(v) : ret' = [NoRet EXCEPT !.v = r]
    /\ op' = "Redact"
    /\ arg' = [NoArg EXCEPT !.v = v]
    /\ UNCHANGED <<reqSeen, reqs, registered, calls, prevReqs>>
    /\ UNCHANGED processes
    /\ cleared' = {}

\* The result of a loader as the operation returns it.
loaderRet(r) == [NoRet EXCEPT !.err = r.err, !.provider = r.provider]

\* Module(opts...): the provider function runs load(cfg.extra...) once.
Load ==
    /\ op = "init"
    /\ op' = "load"
    /\ ret' = loaderRet(load(arg.env.fs, arg.env.name, arg.env.extra))
    /\ UNCHANGED <<reqSeen, reqs, registered, calls, arg, prevReqs>>
    /\ UNCHANGED processes
    /\ cleared' = {}

\* NewYAML(ctx, opts...)
NewYAML ==
    /\ op = "init"
    /\ op' = "NewYAML"
    /\ ret' = loaderRet(NewYAMLOf(arg.env.fs, arg.env.config, arg.env.extra))
    /\ UNCHANGED <<reqSeen, reqs, registered, calls, arg, prevReqs>>
    /\ UNCHANGED processes
    /\ cleared' = {}

\* The state runConfigCheck leaves, r being what it did.
configCheckDone(r) ==
    /\ reqSeen' = r.seen
    /\ reqs' = r.entries
    /\ registered' = {<<e.key, e.t>> : e \in Range(r.entries)}
    /\ calls' = Len(r.entries)
    /\ ret' = [NoRet EXCEPT !.results = r.results, !.err = r.err, !.exit = r.exit]

\* stackctl config check: one run of the process.
ConfigCheck ==
    /\ op = "init"
    /\ op' = "ConfigCheck"
    /\ configCheckDone(runConfigCheck(reqSeen, reqs, arg.opts, arg.env))
    /\ cleared' = {}
    /\ UNCHANGED <<arg, prevReqs>>
    /\ UNCHANGED processes

----------------------------------------------------------------------------
(* The registry under concurrency: goroutines and reqMu *)

\* What the goroutines register, ask for and check.
ConcurrentPairs == { <<<<"db">>, "DB">>, <<<<"db">>, "PDB">> }
ConcurrentQueries ==
    { Requirement(<<"db">>, DisplayType("DB"), PkgPath("DB")),
      Requirement(<<"srv">>, DisplayType("SRV"), PkgPath("SRV")) }
ConcurrentDocs == { [root |-> docValid, strict |-> FALSE] }

\* A goroutine calls f with argument a: it is now before f's reqMu.Lock().
call(g, f, a) ==
    /\ goroutines[g].pc = "idle"
    /\ started < MaxOps
    /\ started' = started + 1
    /\ goroutines' = [goroutines EXCEPT ![g] = [NoGoroutine EXCEPT !.pc = f, !.arg = a]]
    /\ UNCHANGED <<reqSeen, reqs, registered, reqMu>>
    /\ UNCHANGED <<calls, op, arg, ret, prevReqs, cleared, shutdown, health>>

\* The goroutine moves on to pc, its locals as in to.
goto(g, to) == goroutines' = [goroutines EXCEPT ![g] = to]

\* The function of goroutine g returns r.
return(g, f, r) ==
    goto(g, [goroutines[g] EXCEPT !.pc = "idle", !.op = f, !.ret = r])

\* A step of goroutine g that writes neither the mutex nor the registry.
local == UNCHANGED <<reqSeen, reqs, registered, reqMu>>

\* What no step of a goroutine changes.
sequential ==
    UNCHANGED <<calls, op, arg, ret, prevReqs, cleared, started, shutdown, health>>

\* The statement after each reqMu.Lock().
AfterLock ==
    [register_lock     |-> "register_test",
     reset_lock        |-> "reset_seen",
     Requirements_lock |-> "Requirements_loop",
     Spec_lock         |-> "Spec_match",
     Check_lock        |-> "Check_copy"]

\* reqMu.Lock() that does not wait for the mutex.
Lock_NoWait(g) ==
    /\ goroutines[g].pc \in DOMAIN AfterLock
    /\ reqMu' = g
    /\ goto(g, [goroutines[g] EXCEPT !.pc = AfterLock[goroutines[g].pc]])
    /\ UNCHANGED <<reqSeen, reqs, registered>>
    /\ sequential

\* reqMu.Lock(): the goroutine goes on once the mutex is free, and holds it.
Lock(g) ==
    /\ reqMu = Free
    /\ goroutines[g].pc \in DOMAIN AfterLock
    /\ reqMu' = g
    /\ goto(g, [goroutines[g] EXCEPT !.pc = AfterLock[goroutines[g].pc]])
    /\ UNCHANGED <<reqSeen, reqs, registered>>
    /\ sequential

\* registerRequirementType, line 87: the test of reqSeen[k].
register_test(g) ==
    /\ goroutines[g].pc = "register_test"
    /\ IF typeKey(goroutines[g].arg.key, goroutines[g].arg.t) \in reqSeen
       THEN /\ goto(g, [goroutines[g] EXCEPT !.pc = "register_unlock"])
            /\ registered' = registered \cup {<<goroutines[g].arg.key, goroutines[g].arg.t>>}
       ELSE /\ goto(g, [goroutines[g] EXCEPT !.pc = "register_seen"])
            /\ UNCHANGED registered
    /\ UNCHANGED <<reqSeen, reqs, reqMu>>
    /\ sequential

\* line 88: reqSeen[k] = struct{}{}
register_seen(g) ==
    /\ goroutines[g].pc = "register_seen"
    /\ reqSeen' = reqSeen \cup {typeKey(goroutines[g].arg.key, goroutines[g].arg.t)}
    /\ goto(g, [goroutines[g] EXCEPT !.pc = "register_append"])
    /\ UNCHANGED <<reqs, registered, reqMu>>
    /\ sequential

\* line 89: reqs = append(reqs, reqEntry{...})
register_append(g) ==
    /\ goroutines[g].pc = "register_append"
    /\ reqs' = Append(reqs, reqEntry(goroutines[g].arg.key, goroutines[g].arg.t))
    /\ registered' = registered \cup {<<goroutines[g].arg.key, goroutines[g].arg.t>>}
    /\ goto(g, [goroutines[g] EXCEPT !.pc = "register_unlock"])
    /\ UNCHANGED <<reqSeen, reqMu>>
    /\ sequential

\* line 91: reqMu.Unlock(), and the function returns.
register_unlock(g) ==
    /\ goroutines[g].pc = "register_unlock"
    /\ reqMu' = Free
    /\ return(g, "register", NoRet)
    /\ UNCHANGED <<reqSeen, reqs, registered>>
    /\ sequential

\* ResetDiscoveryForTests, line 384: reqSeen = map[string]struct{}{}
reset_seen(g) ==
    /\ goroutines[g].pc = "reset_seen"
    /\ reqSeen' = {}
    /\ goto(g, [goroutines[g] EXCEPT !.pc = "reset_reqs"])
    /\ UNCHANGED <<reqs, registered, reqMu>>
    /\ sequential

\* line 385: reqs = nil
reset_reqs(g) ==
    /\ goroutines[g].pc = "reset_reqs"
    /\ reqs' = <<>>
    /\ registered' = {}
    /\ goto(g, [goroutines[g] EXCEPT !.pc = "reset_unlock"])
    /\ UNCHANGED <<reqSeen, reqMu>>
    /\ sequential

\* line 383: the deferred reqMu.Unlock() as the function returns.
reset_unlock(g) ==
    /\ goroutines[g].pc = "reset_unlock"
    /\ reqMu' = Free
    /\ return(g, "reset", NoRet)
    /\ UNCHANGED <<reqSeen, reqs, registered>>
    /\ sequential

\* Requirements, lines 99-124: the loop over reqs and the sort.
Requirements_loop(g) ==
    /\ goroutines[g].pc = "Requirements_loop"
    /\ goto(g, [goroutines[g] EXCEPT !.pc = "Requirements_unlock",
                                     !.ret = [NoRet EXCEPT !.list = RequirementsOf(reqs)]])
    /\ local
    /\ sequential

\* line 98: the deferred reqMu.Unlock() as the function returns.
Requirements_unlock(g) ==
    /\ goroutines[g].pc = "Requirements_unlock"
    /\ reqMu' = Free
    /\ return(g, "Requirements", goroutines[g].ret)
    /\ UNCHANGED <<reqSeen, reqs, registered>>
    /\ sequential

\* Spec, lines 143-156: the search for the matching entry.
Spec_match(g) ==
    /\ goroutines[g].pc = "Spec_match"
    /\ IF specMatch(reqs, goroutines[g].arg.req) = 0
       THEN goto(g, [goroutines[g] EXCEPT !.pc = "Spec_unlock",
                                          !.ret = specRet(specAt(reqs, 0))])
       ELSE goto(g, [goroutines[g] EXCEPT !.pc = "Spec_walk",
                                          !.match = specMatch(reqs, goroutines[g].arg.req)])
    /\ local
    /\ sequential

\* lines 158-160: walkStruct on the matching entry, which is read in reqs.
Spec_walk(g) ==
    /\ goroutines[g].pc = "Spec_walk"
    /\ goto(g, [goroutines[g] EXCEPT !.pc = "Spec_unlock",
                                     !.ret = specRet(specAt(reqs, goroutines[g].match))])
    /\ local
    /\ sequential

\* line 140: the deferred reqMu.Unlock() as the function returns.
Spec_unlock(g) ==
    /\ goroutines[g].pc = "Spec_unlock"
    /\ reqMu' = Free
    /\ return(g, "Spec", goroutines[g].ret)
    /\ UNCHANGED <<reqSeen, reqs, registered>>
    /\ sequential

\* Check, lines 335-336: the copy of reqs.
Check_copy(g) ==
    /\ goroutines[g].pc = "Check_copy"
    /\ goto(g, [goroutines[g] EXCEPT !.pc = "Check_unlock", !.snapshot = reqs])
    /\ local
    /\ sequential

\* line 337: reqMu.Unlock()
Check_unlock(g) ==
    /\ goroutines[g].pc = "Check_unlock"
    /\ reqMu' = Free
    /\ goto(g, [goroutines[g] EXCEPT !.pc = "Check_walk"])
    /\ UNCHANGED <<reqSeen, reqs, registered>>
    /\ sequential

\* lines 339-376: the loop over the snapshot, the sort and the return.
Check_walk(g) ==
    /\ goroutines[g].pc = "Check_walk"
    /\ return(g, "Check",
              [NoRet EXCEPT !.results = CheckOf(goroutines[g].snapshot, goroutines[g].arg.doc)])
    /\ local
    /\ sequential

\* The calls the goroutines make.
Calls(g) ==
    \/ \E p \in ConcurrentPairs :
           call(g, "register_lock", [NoArg EXCEPT !.key = p[1], !.t = p[2]])
    \/ call(g, "reset_lock", NoArg)
    \/ call(g, "Requirements_lock", NoArg)
    \/ \E q \in ConcurrentQueries : call(g, "Spec_lock", [NoArg EXCEPT !.req = q])
    \/ \E d \in ConcurrentDocs : call(g, "Check_lock", [NoArg EXCEPT !.doc = d])

\* Goroutines that register, reset and read the registry, in any interleaving.
NextConcurrent ==
    \E g \in Goroutines :
        \/ Calls(g)
        \/ Lock(g)
        \/ register_test(g)
        \/ register_seen(g)
        \/ register_append(g)
        \/ register_unlock(g)
        \/ reset_seen(g)
        \/ reset_reqs(g)
        \/ reset_unlock(g)
        \/ Requirements_loop(g)
        \/ Requirements_unlock(g)
        \/ Spec_match(g)
        \/ Spec_walk(g)
        \/ Spec_unlock(g)
        \/ Check_copy(g)
        \/ Check_unlock(g)
        \/ Check_walk(g)

SpecConcurrent == Init /\ [][NextConcurrent]_vars

Register ==
    \/ \E p \in RegPairs : RegisterRequirement(p[1], p[2])
    \/ \E p \in RegPairs : RegisterRequirementType(p[1], p[2])
    \/ \E p \in RegPairs : ProvideFromKey(p[1], p[2])
    \/ \E k \in Keys : RegisterRequirement(k, "nil")
    \/ \E k \in Keys : RegisterRequirementType(k, "nil")

\* The registry alone: registration, reset and listing.
NextRegistry ==
    \/ Register
    \/ ResetDiscoveryForTests
    \/ Requirements

SpecRegistry == Init /\ [][NextRegistry]_vars

\* Registration and Check, as the check command runs them: the known types are
\* registered through RegisterRequirementType, then the provider is checked.
CheckPairs == RegPairs \ { <<<<"db">>, "DB2">>, <<<<"db">>, "Addr">> }

NextCheck ==
    \/ \E p \in CheckPairs : RegisterRequirementType(p[1], p[2])
    \/ ResetDiscoveryForTests
    \/ \E d \in Docs : Check(d)

SpecCheck == Init /\ [][NextCheck]_vars

\* Registration, reset and both readers of the whole registry.
ResetDocs == { [root |-> docValid, strict |-> st] : st \in BOOLEAN }

NextReset ==
    \/ \E p \in CheckPairs : RegisterRequirementType(p[1], p[2])
    \/ ResetDiscoveryForTests
    \/ Requirements
    \/ \E d \in ResetDocs : Check(d)

SpecReset == Init /\ [][NextReset]_vars

\* Registration and the discovery output.
NextDiscovery ==
    \/ Register
    \/ ResetDiscoveryForTests
    \/ Requirements
    \/ \E q \in Queries : Spec_(q)
    \/ \E q \in Queries : Skeleton(q)

SpecDiscovery == Init /\ [][NextDiscovery]_vars

\* Registration of named and unnamed struct types and the discovery output
\* for the requirements listed.
IdentityPairs ==
    { <<<<"db">>, "Anon1">>, <<<<"srv">>, "Anon2">>, <<<<"db">>, "DB">>,
      <<<<"srv">>, "SRV">> }

IdentityQueries ==
    {Requirement(p[1], DisplayType(Base(p[2])), PkgPath(Base(p[2]))) : p \in IdentityPairs}

NextIdentity ==
    \/ \E p \in IdentityPairs : RegisterRequirementType(p[1], p[2])
    \/ Requirements
    \/ \E q \in IdentityQueries : Spec_(q)
    \/ \E q \in IdentityQueries : Skeleton(q)

SpecIdentity == Init /\ [][NextIdentity]_vars

\* Redact on its own: it reads no state.
NextRedact == \E v \in RedactInputs : Redact(v)

SpecRedact == Init /\ [][NextRedact]_vars

\* The loaders, each run once in an environment.
InitLoaders == \E e \in LoadEnvs \cup NewYAMLEnvs : InitWith([NoArg EXCEPT !.env = e])

NextLoaders ==
    \/ Load
    \/ NewYAML

SpecLoaders == InitLoaders /\ [][NextLoaders]_vars

----------------------------------------------------------------------------
(* Shutdown (signals/signal.go) *)

\* The goroutines the WaitGroup tracks.
Workers == 1..MaxWorkers

\* A tracked goroutine: not started, running or exited; one that is started
\* returns once the Graceful context is cancelled ("graceful") or only once
\* the Force context is ("force").
WorkerKinds == {"graceful", "force"}

\* sync.WaitGroup: the counter, one per goroutine that runs.
wg(s) == Cardinality({w \in Workers : s.workers[w].st = "running"})

\* The goroutine Wait starts (lines 108-111) is in wg.Wait().
helperWaits(s) == s.helper = "waiting"

\* done is closed.
doneClosed(s) == s.helper = "closed"

\* The channel of time.After(timeout) holds the time.
timerFired(s) == s.timerOn /\ s.remaining = 0

\* What no step of a Shutdown changes.
registry ==
    <<reqSeen, reqs, registered, calls, op, arg, ret, prevReqs, cleared,
      reqMu, goroutines, started, health>>

\* New(wg): both contexts derive from context.Background(), nothing listens
\* for signals.
New ==
    /\ ~shutdown.made
    /\ shutdown' = [NoShutdown EXCEPT !.made = TRUE]
    /\ UNCHANGED registry

\* wg.Add(1) and go func() { defer wg.Done(); ... }() of the program that
\* owns the Shutdown, before Wait reaches wg.Wait().
Go(w, kind) ==
    /\ ~shutdown.killed
    /\ shutdown.made
    /\ shutdown.wait \in {"idle", "blocked"}
    /\ shutdown.workers[w].st = "none"
    /\ shutdown' = [shutdown EXCEPT !.workers[w] = [st |-> "running", kind |-> kind]]
    /\ UNCHANGED registry

\* A tracked goroutine returns (wg.Done()): on <-Graceful().Done() or
\* <-Force().Done(), as its kind is.
WorkerExit(w) ==
    /\ ~shutdown.killed
    /\ shutdown.workers[w].st = "running"
    /\ \/ shutdown.force
       \/ shutdown.workers[w].kind = "graceful" /\ shutdown.graceful
    /\ shutdown' = [shutdown EXCEPT !.workers[w].st = "exited"]
    /\ UNCHANGED registry

\* A tracked goroutine returns, the Force context being cancelled.
ExitOnForce(w) == shutdown.force /\ WorkerExit(w)

\* TriggerGraceful(): s.gracefulFn()
TriggerGraceful ==
    /\ ~shutdown.killed
    /\ shutdown.made
    /\ shutdown.triggers < MaxTriggers
    /\ shutdown' = [shutdown EXCEPT !.graceful = TRUE, !.triggers = @ + 1]
    /\ UNCHANGED registry

\* Wait(timeout) is called: it is at <-s.gracefulCtx.Done() (line 105).
Wait(timeout) ==
    /\ ~shutdown.killed
    /\ shutdown.made
    /\ shutdown.wait = "idle"
    /\ shutdown' = [shutdown EXCEPT !.wait = "blocked", !.timeout = timeout]
    /\ UNCHANGED registry

\* Lines 105-113: the Graceful context is done; Wait starts the goroutine
\* that waits for the WaitGroup, and the timer of time.After(timeout), and
\* is at the select.
Wait_graceful ==
    /\ ~shutdown.killed
    /\ shutdown.wait = "blocked"
    /\ shutdown.graceful
    /\ shutdown' = [shutdown EXCEPT !.wait = "select", !.helper = "waiting",
                                    !.timerOn = TRUE, !.remaining = shutdown.timeout]
    /\ UNCHANGED registry

\* Lines 109-110: s.wg.Wait() returns when the counter is zero, and the
\* deferred close(done) runs.
Wait_helper ==
    /\ ~shutdown.killed
    /\ helperWaits(shutdown)
    /\ wg(shutdown) = 0
    /\ shutdown' = [shutdown EXCEPT !.helper = "closed"]
    /\ UNCHANGED registry

\* Time passes for the timer of time.After(timeout).
Tick ==
    /\ ~shutdown.killed
    /\ shutdown.timerOn
    /\ shutdown.remaining > 0
    /\ shutdown' = [shutdown EXCEPT !.remaining = @ - 1]
    /\ UNCHANGED registry

\* Lines 114-115: case <-done: return
Wait_done ==
    /\ ~shutdown.killed
    /\ shutdown.wait = "select"
    /\ doneClosed(shutdown)
    /\ shutdown' = [shutdown EXCEPT !.wait = "returned"]
    /\ UNCHANGED registry

\* The timeout case that does not cancel the Force context.
Wait_timeout_NoForce ==
    /\ ~shutdown.killed
    /\ shutdown.wait = "select"
    /\ timerFired(shutdown)
    /\ shutdown' = [shutdown EXCEPT !.wait = "drain"]
    /\ UNCHANGED registry

\* Lines 116-117: case <-time.After(timeout): s.forceFn()
Wait_timeout ==
    /\ ~shutdown.killed
    /\ shutdown.wait = "select"
    /\ timerFired(shutdown)
    /\ shutdown' = [shutdown EXCEPT !.wait = "drain", !.force = TRUE]
    /\ UNCHANGED registry

\* Line 118: <-done, and Wait returns.
Wait_drained ==
    /\ ~shutdown.killed
    /\ shutdown.wait = "drain"
    /\ doneClosed(shutdown)
    /\ shutdown' = [shutdown EXCEPT !.wait = "returned"]
    /\ UNCHANGED registry

\* NewWithSignals(ctx, wg), ctx being context.Background(): the Shutdown
\* listens, and the handler goroutine is started (line 59); it has not run
\* yet.
NewWithSignals ==
    /\ ~shutdown.made
    /\ shutdown' = [NoShutdown EXCEPT !.made = TRUE, !.listen = TRUE,
                                      !.handler = "starting"]
    /\ UNCHANGED registry

\* Lines 59-61 of the handler goroutine: ch := make(chan os.Signal, 1),
\* signal.Notify(ch, SIGINT, SIGTERM); it is at the select.
Handler_notify ==
    /\ ~shutdown.killed
    /\ shutdown.handler = "starting"
    /\ shutdown' = [shutdown EXCEPT !.handler = "loop"]
    /\ UNCHANGED registry

\* signal.Notify is in effect for ch: from signal.Notify to signal.Stop.
notified(s) == s.handler \in {"loop", "stopping"}

\* A SIGINT or SIGTERM is sent to the process.  While signal.Notify is in
\* effect the runtime relays it to ch without blocking: it is dropped when
\* the buffer of one is full.  Before signal.Notify and after signal.Stop
\* the signal has its default disposition, which terminates the process.
Signal ==
    /\ shutdown.made
    /\ shutdown.listen
    /\ ~shutdown.killed
    /\ shutdown.signals < MaxSignals
    /\ shutdown' =
           IF notified(shutdown)
           THEN [shutdown EXCEPT !.signals = @ + 1, !.ch = 1]
           ELSE [shutdown EXCEPT !.signals = @ + 1, !.killed = TRUE]
    /\ UNCHANGED registry

\* Lines 69-70: case <-ch: s.gracefulFn()
Handler_signal ==
    /\ ~shutdown.killed
    /\ shutdown.handler = "loop"
    /\ shutdown.ch = 1
    /\ shutdown' = [shutdown EXCEPT !.ch = 0, !.handled = @ + 1,
                                    !.graceful = TRUE]
    /\ UNCHANGED registry

\* Lines 71-72: case <-s.gracefulCtx.Done(): return.  The select takes it
\* whenever the context is cancelled, a signal waiting in ch or not.
Handler_done ==
    /\ ~shutdown.killed
    /\ shutdown.handler = "loop"
    /\ shutdown.graceful
    /\ shutdown' = [shutdown EXCEPT !.handler = "stopping"]
    /\ UNCHANGED registry

\* Line 62, deferred: signal.Stop(ch).  No channel is notified of SIGINT
\* and SIGTERM any more, and the runtime restores their default disposition.
Handler_stop ==
    /\ ~shutdown.killed
    /\ shutdown.handler = "stopping"
    /\ shutdown' = [shutdown EXCEPT !.handler = "stopped"]
    /\ UNCHANGED registry


\* A Shutdown made by New, its tracked goroutines, and the goroutine that
\* triggers the graceful shutdown and waits.
NextShutdown ==
    \/ New
    \/ \E w \in Workers, k \in WorkerKinds : Go(w, k)
    \/ \E w \in Workers : WorkerExit(w)
    \/ TriggerGraceful
    \/ \E t \in 0..MaxTimeout : Wait(t)
    \/ Wait_graceful
    \/ Wait_helper
    \/ Tick
    \/ Wait_done
    \/ Wait_timeout
    \/ Wait_drained

SpecShutdown == Init /\ [][NextShutdown]_vars

\* The same where the scheduler runs every goroutine that can run, time
\* passes, and every tracked goroutine returns once the Force context is
\* cancelled.
SpecShutdownFair ==
    /\ SpecShutdown
    /\ WF_vars(Wait_graceful)
    /\ WF_vars(Wait_helper)
    /\ WF_vars(Tick)
    /\ WF_vars(Wait_done)
    /\ WF_vars(Wait_timeout)
    /\ WF_vars(Wait_drained)
    /\ \A w \in Workers : WF_vars(ExitOnForce(w))

\* A Shutdown made by NewWithSignals in a process that is sent signals.
NextSignals ==
    \/ NewWithSignals
    \/ Handler_notify
    \/ Signal
    \/ Handler_signal
    \/ Handler_done
    \/ Handler_stop
    \/ \E w \in Workers, k \in WorkerKinds : Go(w, k)
    \/ \E w \in Workers : WorkerExit(w)
    \/ TriggerGraceful
    \/ \E t \in 0..MaxTimeout : Wait(t)
    \/ Wait_graceful
    \/ Wait_helper
    \/ Tick
    \/ Wait_done
    \/ Wait_timeout
    \/ Wait_drained

SpecSignals == Init /\ [][NextSignals]_vars

\* The same where the scheduler runs every goroutine that can run, the
\* handler goroutine included, and time passes.
SpecSignalsFair ==
    /\ SpecSignals
    /\ WF_vars(Handler_notify)
    /\ WF_vars(Handler_signal)
    /\ WF_vars(Handler_done)
    /\ WF_vars(Handler_stop)
    /\ WF_vars(Wait_graceful)
    /\ WF_vars(Wait_helper)
    /\ WF_vars(Tick)
    /\ WF_vars(Wait_done)
    /\ WF_vars(Wait_timeout)
    /\ WF_vars(Wait_drained)
    /\ \A w \in Workers : WF_vars(ExitOnForce(w))

----------------------------------------------------------------------------
(* Health (healthkit) *)

\* What no step of a Health changes.
services ==
    <<reqSeen, reqs, registered, calls, op, arg, ret, prevReqs, cleared,
      reqMu, goroutines, started, shutdown>>

\* Where the lifecycle is: before OnStart, between OnStart and the store of
\* the startup-delay goroutine, after that store, inside OnStop, after OnStop.
era(h) ==
    IF h.stop = "done" THEN "stopped"
    ELSE IF h.stop = "ready" THEN "stopping"
    ELSE IF h.start = "none" THEN "new"
    ELSE IF h.sleeper = "sleeping" THEN "initializing"
    ELSE "ready"

\* New(p): a Health whose atomic.Bool are false, with the lifecycle hook.
HealthNew ==
    /\ ~health.made
    /\ health' = [NoHealth EXCEPT !.made = TRUE]
    /\ UNCHANGED services

\* OnStart: h.live.Store(true), h.ready.Store(false), and the goroutine that
\* sleeps for StartupDelay is started.  (ready is false before the hook, so
\* no reader tells the two stores apart.)
OnStart ==
    /\ health.made
    /\ health.start = "none"
    /\ health' = [health EXCEPT !.live = TRUE, !.ready = FALSE,
                                !.start = "done", !.sleeper = "sleeping"]
    /\ UNCHANGED services

\* The goroutine of OnStart: time.Sleep(h.cfg.StartupDelay) has returned,
\* h.ready.Store(true).
Sleeper_ready ==
    /\ health.sleeper = "sleeping"
    /\ health' = [health EXCEPT !.ready = TRUE, !.sleeper = "done"]
    /\ UNCHANGED services

\* OnStop, which fx runs once OnStart has returned: h.ready.Store(false)
OnStop_ready ==
    /\ health.start = "done"
    /\ health.stop = "none"
    /\ health' = [health EXCEPT !.ready = FALSE, !.stop = "ready"]
    /\ UNCHANGED services

\* OnStop: h.live.Store(false), and it returns.
OnStop_live ==
    /\ health.stop = "ready"
    /\ health' = [health EXCEPT !.live = FALSE, !.stop = "done"]
    /\ UNCHANGED services

\* The response to a GET: status and code from the two loaded values.
respond(live, ready, from, to) ==
    [code   |-> IF live /\ ready THEN 200 ELSE 503,
     status |-> IF ~live THEN "unhealthy"
                ELSE IF ~ready THEN "initializing" ELSE "ok",
     live |-> live, ready |-> ready, from |-> from, to |-> to]

\* The handler is called: a method other than GET is answered 405; for a
\* GET it loads h.live.
Handler_live(method) ==
    /\ health.made
    /\ health.handler = "idle"
    /\ health.requests < MaxRequests
    /\ health' =
           IF method # "GET"
           THEN [health EXCEPT
                     !.requests = @ + 1,
                     !.resp = [NoResponse EXCEPT !.code = 405,
                                                 !.status = "Method Not Allowed",
                                                 !.from = era(health),
                                                 !.to = era(health)]]
           ELSE [health EXCEPT !.handler = "ready", !.loaded = health.live,
                               !.from = era(health)]
    /\ UNCHANGED services

\* The handler loads h.ready, chooses status and code, and writes the
\* response.
Handler_ready ==
    /\ health.handler = "ready"
    /\ health' = [health EXCEPT
                      !.handler = "idle", !.requests = @ + 1,
                      !.resp = respond(health.loaded, health.ready,
                                       health.from, era(health))]
    /\ UNCHANGED services

\* A Health in an fx application, and the requests to its handler.
NextHealth ==
    \/ HealthNew
    \/ OnStart
    \/ Sleeper_ready
    \/ OnStop_ready
    \/ OnStop_live
    \/ \E m \in {"GET", "POST"} : Handler_live(m)
    \/ Handler_ready

SpecHealth == Init /\ [][NextHealth]_vars

\* stackctl config check, run once with a command line in an environment.
InitConfigCheck ==
    \E o \in CheckOpts, e \in CheckEnvs :
        InitWith([NoArg EXCEPT !.opts = o, !.env = e])

NextConfigCheck == ConfigCheck

SpecConfigCheck == InitConfigCheck /\ [][NextConfigCheck]_vars

\* Every operation.
Next ==
    \/ NextRegistry
    \/ \E d \in Docs : Check(d)
    \/ \E q \in Queries : Spec_(q)
    \/ \E q \in Queries : Skeleton(q)
    \/ NextRedact
    \/ NextLoaders
    \/ NextConcurrent
    \/ NextConfigCheck
    \/ NextShutdown
    \/ NextSignals
    \/ NextHealth
    \/ NextIdentity

Spec == Init /\ [][Next]_vars

----------------------------------------------------------------------------
(* The registry claims, checked under SpecRegistry *)

\* The (key, signature) of a registration: the key and the textual form of
\* the type handed in.
Signature(p) == <<p[1], TypeString(p[2])>>

\* The Requirement that Requirements() shows for a registration.
Shown(p) == Requirement(p[1], DisplayType(Base(p[2])), PkgPath(Base(p[2])))

\* C1: registration is idempotent per (key, signature).  However many times
\* a pair was registered since the last reset, the registry holds exactly
\* one entry with its signature, and Requirements() returns one entry per
\* registered signature.
C1_IdempotentRegistration ==
    /\ \A p \in registered :
           Cardinality({i \in 1..Len(reqs) :
                           <<reqs[i].key, TypeString(reqs[i].t)>> = Signature(p)}) = 1
    /\ op = "Requirements" =>
           Len(ret.list) = Cardinality({Signature(p) : p \in registered})

\* C1's case: one pair registered three times, then listed once.
C1_Witness ==
    /\ op = "Requirements"
    /\ calls = 3
    /\ Cardinality(registered) = 1
    /\ Len(ret.list) = 1

\* C2: the same key registered with types of different signatures gives one
\* entry per signature in Requirements(): under each key there are as many
\* entries as signatures registered with it, and a type that shares its
\* signature with no other registered type is shown with its own Type and
\* PkgPath.
C2_DistinctTypes ==
    op = "Requirements" =>
        /\ \A k \in Keys :
               Cardinality({i \in 1..Len(ret.list) : ret.list[i].Key = k})
                   = Cardinality({Signature(p) : p \in {q \in registered : q[1] = k}})
        /\ \A p \in registered :
               (\A q \in registered : Signature(q) = Signature(p) => q = p)
                   => \E i \in 1..Len(ret.list) : ret.list[i] = Shown(p)

\* C2's case: db.Config and net.Addr both registered under "db", both listed.
C2_Witness ==
    /\ op = "Requirements"
    /\ registered = {<<<<"db">>, "DB">>, <<<<"db">>, "Addr">>}
    /\ Len(ret.list) = 2
    /\ ret.list[1].Type # ret.list[2].Type

\* C3: Requirements() returns its entries in ascending (Key, Type) order, in
\* every registry state and so for every order of registration, and a
\* second call with no registration or reset in between returns the list
\* the first one returned.
C3_SortedAndRepeatable ==
    /\ op = "Requirements" =>
           \A i \in 1..Len(ret.list) : \A j \in 1..Len(ret.list) :
               i < j => \/ StrLess(ret.list[i].Key, ret.list[j].Key)
                        \/ /\ ret.list[i].Key = ret.list[j].Key
                           /\ ~StrLess(ret.list[j].Type, ret.list[i].Type)
    /\ prevReqs.n = 2 => prevReqs.last = prevReqs.before

\* C3's case: net.Addr was registered under "db" before db.Config and is
\* listed after it, twice in a row.
C3_Witness ==
    /\ op = "Requirements"
    /\ prevReqs.n = 2
    /\ Len(reqs) >= 2
    /\ reqs[1].t = "Addr" /\ reqs[1].key = <<"db">>
    /\ reqs[2].t = "DB"
    /\ ret.list[1].Type = <<"db", ".", "Config">>

----------------------------------------------------------------------------
(* The claims about Check, checked under SpecCheck *)

\* The result Check gives for entry r when r is the only entry.
Alone(r, doc) == CheckOf(<<r>>, doc)[1]

RECURSIVE AloneFrom(_, _, _)
AloneFrom(rs, doc, i) ==
    IF i > Len(rs) THEN <<>> ELSE <<Alone(rs[i], doc)>> \o AloneFrom(rs, doc, i + 1)

\* The results of the last Check for entry r: those with its Key and Type.
ResultsFor(r) ==
    {j \in 1..Len(ret.results) :
        ret.results[j].Key = r.key /\ ret.results[j].Type = DisplayType(r.base)}

\* C4: Check returns exactly one result per entry of the registry, in
\* ascending (Key, Type) order, and the result of each entry is the one it
\* gets when it is checked alone: a bind failure, an issue or an unknown key
\* of another entry neither removes nor changes it.
C4_OneResultPerRequirement ==
    op = "Check" =>
        /\ Len(ret.results) = Len(reqs)
        /\ \A i \in 1..Len(ret.results) : \A j \in 1..Len(ret.results) :
               i < j => \/ StrLess(ret.results[i].Key, ret.results[j].Key)
                        \/ /\ ret.results[i].Key = ret.results[j].Key
                           /\ ~StrLess(ret.results[j].Type, ret.results[i].Type)
        /\ LET alone == AloneFrom(reqs, arg.doc, 1)
           IN \A i \in 1..Len(reqs) :
                  Cardinality({j \in 1..Len(ret.results) : ret.results[j] = alone[i]})
                      = Cardinality({j \in 1..Len(reqs) : alone[j] = alone[i]})

\* C4's case: three entries, the first one met fails to bind, the two after
\* it are checked and are OK.
C4_Witness ==
    /\ op = "Check"
    /\ Len(ret.results) = 3
    /\ Alone(reqs[1], arg.doc).Err = "populate"
    /\ Alone(reqs[2], arg.doc).OK
    /\ Alone(reqs[3], arg.doc).OK

TopRequired(t) ==
    {i \in 1..Len(Fields(t)) :
        /\ Fields(t)[i].PkgPath = <<>>
        /\ hasRequired(Fields(t)[i].validate)
        /\ Kind(Base(Fields(t)[i].Type)) # "struct"
        /\ ~parseYAMLTag(Fields(t)[i].yaml, Fields(t)[i]).inline
        /\ parseYAMLTag(Fields(t)[i].yaml, Fields(t)[i]).name # <<"-">>}

\* The document name of a field.
DocName(f) == parseYAMLTag(f.yaml, f).name

Issue(path, rule) == path \o <<": ">> \o <<rule>>

\* C6: when the subtree of an entry is a mapping that binds and lacks a
\* field its type declares required at the top level, the entry's result is
\* not OK, its Issues hold "<document name>: required" and hold no issue that
\* names the field by its Go identifier.
C6_MissingRequiredByDocName ==
    op = "Check" =>
        \A i \in 1..Len(reqs) :
            ( /\ Get(arg.doc, reqs[i].key).kind = "map"
              /\ ~yamlDecode(Get(arg.doc, reqs[i].key), reqs[i].base, arg.doc.strict).err )
            => \A n \in TopRequired(reqs[i].base) :
                   DocName(Fields(reqs[i].base)[n]) \notin DOMAIN Get(arg.doc, reqs[i].key).ents
                   => \E j \in ResultsFor(reqs[i]) :
                          /\ ~ret.results[j].OK
                          /\ Issue(DocName(Fields(reqs[i].base)[n]), "required")
                                 \in Range(ret.results[j].Issues)
                          /\ Issue(<<Fields(reqs[i].base)[n].Name>>, "required")
                                 \notin Range(ret.results[j].Issues)

\* The fields a struct type declares, by document name, those of its inline
\* structs included at every depth: pairs <<name, type of the field>>.
RECURSIVE Declared(_)
DeclaredBy(f, p) ==
    IF f.PkgPath # <<>> \/ p.name = <<"-">> THEN {}
    ELSE IF ~p.inline THEN {<<p.name, Base(f.Type)>>}
    ELSE IF Kind(Base(f.Type)) = "struct" THEN Declared(Base(f.Type))
    ELSE {}

Declared(t) ==
    UNION {DeclaredBy(Fields(t)[i], parseYAMLTag(Fields(t)[i].yaml, Fields(t)[i])) :
              i \in 1..Len(Fields(t))}

\* The paths of the keys of mapping y that type t does not declare, those
\* inside its nested struct fields included.
RECURSIVE Undeclared(_, _, _)
UndeclaredAt(v, path, ds) ==
    IF ds = {} THEN {path}
    ELSE UNION {Undeclared(v, d[2], path) : d \in ds}

Undeclared(y, t, prefix) ==
    IF Kind(t) # "struct" \/ y.kind # "map" THEN {}
    ELSE UNION {UndeclaredAt(y.ents[k],
                             IF prefix = <<>> THEN k ELSE prefix \o <<".">> \o k,
                             {d \in Declared(t) : d[1] = k}) : k \in DOMAIN y.ents}

\* C7: when the subtree of an entry is a mapping, the Unknown of its result
\* lists exactly the keys its type does not declare ("a.<key>" for a key
\* inside nested struct field a), no declared key is listed, and the result
\* is not OK when there is such a key.
C7_UnknownExactlyUndeclared ==
    op = "Check" =>
        \A i \in 1..Len(reqs) :
            Get(arg.doc, reqs[i].key).kind = "map"
            => \E j \in ResultsFor(reqs[i]) :
                   /\ Range(ret.results[j].Unknown)
                          = Undeclared(Get(arg.doc, reqs[i].key), reqs[i].base, <<>>)
                   /\ Range(ret.results[j].Unknown) # {} => ~ret.results[j].OK

----------------------------------------------------------------------------
(* The claims about Spec and Skeleton, checked under SpecDiscovery *)

\* C8: Spec and Skeleton return the not-found error, with no field specs and
\* no text, exactly when the requirement handed in is none of the
\* requirements registered now (none that Requirements() returns), a key
\* never registered and any query after a reset included.
C8_NotFoundIffUnregistered ==
    op \in {"Spec", "Skeleton"} =>
        /\ ret.err <=> arg.req \notin Range(RequirementsOf(reqs))
        /\ ret.err => IF op = "Spec" THEN ret.fields = <<>> ELSE ret.text = <<>>

\* C9: the list Spec returns for a registered requirement holds no two
\* FieldSpecs with the same Path.
C9_PathsDistinct ==
    (op = "Spec" /\ ~ret.err) =>
        \A i \in 1..Len(ret.fields) : \A j \in 1..Len(ret.fields) :
            i # j => ret.fields[i].Path # ret.fields[j].Path

\* The nested YAML text of a tree: a line "seg:" for a node with its
\* children two spaces deeper, a line "name: placeholder" for a leaf, keys
\* sorted at every level.
RECURSIVE NestedLines(_, _, _, _)
NestedLines(n, keys, i, indent) ==
    IF i > Len(keys) THEN <<>>
    ELSE (IF n[keys[i]].dyn = "node"
          THEN Spaces(indent) \o keys[i] \o <<":", "\n">>
                   \o NestedLines(n[keys[i]].m, sortedKeys(DOMAIN n[keys[i]].m), 1,
                                  indent + 2)
          ELSE Spaces(indent) \o keys[i] \o <<":", " ">> \o n[keys[i]].s \o <<"\n">>)
         \o NestedLines(n, keys, i + 1, indent)

NestedText(key, n) ==
    IF key # <<>>
    THEN key \o <<":", "\n">> \o NestedLines(n, sortedKeys(DOMAIN n), 1, 2)
    ELSE NestedLines(n, sortedKeys(DOMAIN n), 1, 0)

\* C10: the text of Skeleton is the nested YAML tree of the field specs,
\* under a first line "<key>:" when the key is not the root key; for
\* {Host string required, Port int} under key db it is exactly
\* "db:\n  host: \"\"  # required\n  port: 0\n".
C10_SkeletonNestedTree ==
    (op = "Skeleton" /\ ~ret.err /\ ~ret.panic) =>
        /\ ret.text
               = NestedText(arg.req.Key, buildTree(NodeVal(EmptyMap), SpecOf(reqs, arg.req).fields).m)
        /\ arg.req = Requirement(<<"db">>, <<"db", ".", "Config">>, <<"app", "/", "db">>)
               => Text(ret.text) = "db:\n  host: \"\"  # required\n  port: 0\n"

----------------------------------------------------------------------------
(* The Redact claims, checked under SpecRedact *)

\* Whether key k contains one of the eight terms, letter case set aside.
SameLetter(a, b) == LowerChar(a) = LowerChar(b)

HasSecretTerm(k) ==
    \E w \in Range(secretWords) : \E i \in 1..Len(k.s) :
        /\ i + Len(w) - 1 <= Len(k.s)
        /\ \A j \in 1..Len(w) : SameLetter(k.s[i + j - 1], w[j])

IsMapping(v) == v.dyn \in {"map[string]any", "map[any]any"}

\* out is in with the values under secret keys masked: every entry of a
\* mapping of in is in out under its key, masked when the key is secret and
\* treated the same way otherwise; sequences element by element; any other
\* value as it is.
RECURSIVE Masked(_, _)
Masked(in, out) ==
    IF IsMapping(in)
    THEN /\ IsMapping(out)
         /\ \A k \in DOMAIN in.m :
                /\ asString(k) \in DOMAIN out.m
                /\ IF HasSecretTerm(k) THEN out.m[asString(k)] = mask
                   ELSE Masked(in.m[k], out.m[asString(k)])
    ELSE IF in.dyn = "[]any"
    THEN /\ out.dyn = "[]any"
         /\ Len(out.l) = Len(in.l)
         /\ \A i \in 1..Len(in.l) : Masked(in.l[i], out.l[i])
    ELSE out = in

\* C11: Redact masks with "***" the value of every mapping entry, at any
\* depth reached through mappings and sequences, whose key contains one of
\* the secret terms (whatever the letter case), without descending into it;
\* every other entry keeps its key and is treated the same way, so its
\* non-secret values come back unchanged.
C11_RedactMasksSecretEntries == op = "Redact" => Masked(arg.v, ret.v)

\* out has the shape of in: a mapping has as many entries as the input
\* mapping, under the same keys; a sequence has the same length, element by
\* element; a value that is neither is returned as it is.  What stands under
\* a secret key is masked and not compared.
RECURSIVE SameShape(_, _)
SameShape(in, out) ==
    IF IsMapping(in)
    THEN /\ IsMapping(out)
         /\ Cardinality(DOMAIN out.m) = Cardinality(DOMAIN in.m)
         /\ DOMAIN out.m = {asString(k) : k \in DOMAIN in.m}
         /\ \A k \in DOMAIN in.m :
                HasSecretTerm(k) \/ SameShape(in.m[k], out.m[asString(k)])
    ELSE IF in.dyn = "[]any"
    THEN /\ out.dyn = "[]any"
         /\ Len(out.l) = Len(in.l)
         /\ \A i \in 1..Len(in.l) : SameShape(in.l[i], out.l[i])
    ELSE out = in

\* C12: Redact always returns, and what it returns has the shape of its
\* input: every mapping has the key set of the input mapping, every sequence
\* its length and order, a leaf and a value of a shape Redact does not know
\* are returned as they are.
C12_RedactKeepsShape ==
    /\ \A v \in RedactInputs : RedactOf(v) # {}
    /\ op = "Redact" => SameShape(arg.v, ret.v)

----------------------------------------------------------------------------
(* The loader claims, checked under SpecLoaders *)

\* The node at a path of keys below a node; Missing when there is none.
RECURSIVE At(_, _)
At(node, path) ==
    IF path = <<>> THEN node
    ELSE IF node.kind = "map" /\ <<path[1]>> \in DOMAIN node.ents
    THEN At(node.ents[<<path[1]>>], Tail(path))
    ELSE Missing

DocPaths == {<<"x">>, <<"m">>, <<"m", "a">>, <<"m", "b">>}

\* What a location contributes: the content of a regular file, nothing
\* otherwise.
FileContent(fs, path) == IF fs[path].kind = "file" THEN <<fs[path].content>> ELSE <<>>

ExtraContents(e) == [i \in 1..Len(e.extra) |-> e.extra[i].content]

\* The documents of an environment from the lowest precedence to the
\* highest, as the Module loader is said to take them.
ModuleStack(e) ==
    ExtraContents(e) \o FileContent(e.fs, configYml) \o FileContent(e.fs, configLocalYml)
    \o (IF e.name # <<>> THEN FileContent(e.fs, serviceYml(e.name)) ELSE <<>>)

\* Two documents of the stack give a path values of different kinds.
Irreconcilable(stack) ==
    \E p \in DocPaths : \E i, j \in 1..Len(stack) :
        /\ At(stack[i], p).kind # "missing"
        /\ At(stack[j], p).kind # "missing"
        /\ At(stack[i], p).kind # At(stack[j], p).kind

Definers(stack, p) == {i \in 1..Len(stack) : At(stack[i], p).kind # "missing"}

Last(is) == CHOOSE i \in is : \A j \in is : j <= i

\* root is the stack merged by precedence: a path no document defines is
\* not in it, a scalar is the one of the last document that defines the
\* path, a mapping has the keys of all the documents that define it.
MergedByPrecedence(stack, root) ==
    \A p \in DocPaths :
        IF Definers(stack, p) = {} THEN At(root, p).kind = "missing"
        ELSE IF At(stack[Last(Definers(stack, p))], p).kind = "scalar"
        THEN At(root, p) = At(stack[Last(Definers(stack, p))], p)
        ELSE /\ At(root, p).kind = "map"
             /\ DOMAIN At(root, p).ents
                    = UNION {DOMAIN At(stack[i], p).ents : i \in Definers(stack, p)}

CLIStack(e) ==
    FileContent(e.fs, configYml)
    \o (IF e.config.set THEN FileContent(e.fs, e.config.path) ELSE <<>>)
    \o ExtraContents(e)

\* C14: NewYAML merges config/config.yml (if present) < the file $CONFIG
\* names < the explicit sources, and when $CONFIG is set to a path that is
\* missing or is not a regular file it returns an error and no provider.
C14_NewYAMLPrecedence ==
    op = "NewYAML" =>
        /\ (arg.env.config.set /\ arg.env.fs[arg.env.config.path].kind # "file")
               => (ret.err /\ ret.provider = NoProvider.provider)
        /\ ~ret.err => MergedByPrecedence(CLIStack(arg.env), ret.provider.root)

----------------------------------------------------------------------------
(* The command line claim, checked under SpecConfigCheck *)

\* The keys config check selects: every known key with --all, else --key.
Selected(opts) == IF opts.all THEN DOMAIN KnownTypes ELSE {opts.key}

\* C18: config check exits non-zero whenever a CheckResult of a selected
\* key is not OK, be it for a bind error, a validation issue or an unknown
\* key; it exits zero only when every selected CheckResult is OK.
C18_CheckExitCode ==
    op = "ConfigCheck" =>
        ((\E i \in 1..Len(ret.results) :
              ret.results[i].Key \in Selected(arg.opts) /\ ~ret.results[i].OK)
             => ret.exit # 0)

----------------------------------------------------------------------------
(* The concurrency claims, checked under SpecConcurrent *)

\* The positions in which a goroutine is inside a recursive walk: walkStruct
\* in Spec, and population, validation and unknown-key scan in Check.
Walks == {"Spec_walk", "Check_walk"}

\* C15: Check and Discovery release the registry mutex before any recursive
\* walk: no goroutine is inside a walk while it holds reqMu, so a walk never
\* keeps a concurrent registration waiting.
C15_NoWalkUnderMutex ==
    \A g \in Goroutines : goroutines[g].pc \in Walks => reqMu # g

\* The deduplication signatures of a list of entries.
Signatures(rs) == {typeKey(rs[i].key, rs[i].t) : i \in 1..Len(rs)}

\* Each signature of the list is listed once.
ListedOnce(rs) == Cardinality(Signatures(rs)) = Len(rs)

\* The positions in which a reader reads the registry.
Reads == {"Requirements_loop", "Spec_match", "Spec_walk", "Check_copy"}

\* C16: registration is atomic under concurrency.  Whenever the mutex is
\* free, and whenever a reader reads the registry, reqSeen is the set of
\* signatures of the entries of reqs and each signature is listed once; every
\* pair whose registration went through since the last reset has exactly one
\* entry; and the snapshot Check works on lists each signature once.
C16_AtomicRegistration ==
    /\ (reqMu = Free \/ goroutines[reqMu].pc \in Reads) =>
           /\ reqSeen = Signatures(reqs)
           /\ ListedOnce(reqs)
           /\ \A p \in registered :
                  Cardinality({i \in 1..Len(reqs) :
                                  reqs[i].key = p[1] /\ reqs[i].t = p[2]}) = 1
    /\ \A g \in Goroutines : ListedOnce(goroutines[g].snapshot)

\* C16's case: both goroutines have registered db.Config under "db", one of
\* them while the other held the mutex or after it; there is one entry.
C16_Witness ==
    /\ reqMu = Free
    /\ \A g \in Goroutines :
           /\ goroutines[g].pc = "idle"
           /\ goroutines[g].op = "register"
           /\ goroutines[g].arg.key = <<"db">>
           /\ goroutines[g].arg.t = "DB"
    /\ Len(reqs) = 1
    /\ started = NumGoroutines

----------------------------------------------------------------------------
(* The reset claim, checked under SpecReset *)

\* C17: ResetDiscoveryForTests clears all registry state.  Right after it
\* both structures are empty, Requirements() and Check() return empty
\* lists, and registering a pair the reset had removed lists it again,
\* exactly once.
C17_ResetClearsAll ==
    [][op = "reset" =>
          /\ reqSeen = {}
          /\ reqs = <<>>
          /\ op' = "Requirements" => ret'.list = <<>>
          /\ op' = "Check" => ret'.results = <<>>
          /\ (op' = "register" /\ <<arg'.key, arg'.t>> \in cleared) =>
                 reqs' = <<reqEntry(arg'.key, arg'.t)>>]_vars

\* C17's case: db.Config was registered under "db", the registry was reset,
\* and the pair has been registered again: it is listed once.
C17_Witness ==
    /\ op = "register"
    /\ <<arg.key, arg.t>> \in cleared
    /\ arg.key = <<"db">>
    /\ arg.t = "DB"
    /\ Len(reqs) = 1
    /\ reqSeen = {typeKey(arg.key, arg.t)}

----------------------------------------------------------------------------
(* The Shutdown claims, checked under SpecShutdown and SpecShutdownFair *)

\* C19: for a Shutdown made by New, the Force context is cancelled only by
\* Wait, when its timeout has elapsed while tracked goroutines are still
\* outstanding; TriggerGraceful, however often it is called, cancels only
\* the Graceful context.  (So when the WaitGroup drains before the timeout,
\* Wait returns with Force not cancelled.)
C19_ForceOnlyOnTimeout ==
    [][/\ (~shutdown.force /\ shutdown'.force) =>
              /\ shutdown.wait = "select"
              /\ timerFired(shutdown)
              /\ wg(shutdown) > 0
       /\ (shutdown'.triggers # shutdown.triggers) =>
              /\ shutdown'.graceful
              /\ shutdown'.force = shutdown.force]_vars

\* C20: Wait does nothing before the Graceful context is cancelled.  After
\* that, if the timeout has elapsed and tracked goroutines keep running, Wait
\* cancels the Force context; it returns only once the WaitGroup has drained;
\* and, every tracked goroutine returning once Force is cancelled, a Wait
\* that was called returns eventually once Graceful is cancelled, whatever
\* the timeout, 0 included.
C20_WaitForcesAndReturns ==
    /\ [](~shutdown.graceful =>
              /\ shutdown.wait \in {"idle", "blocked"}
              /\ shutdown.helper = "none"
              /\ ~shutdown.timerOn
              /\ ~shutdown.force)
    /\ [](shutdown.wait = "drain" => shutdown.force)
    /\ [](shutdown.wait = "returned" => wg(shutdown) = 0)
    /\ (shutdown.wait = "select" /\ timerFired(shutdown) /\ wg(shutdown) > 0)
           ~> (shutdown.force \/ wg(shutdown) = 0)
    /\ (shutdown.wait = "blocked" /\ shutdown.graceful)
           ~> (shutdown.wait = "returned")

\* C20's case: Wait(0) with a tracked goroutine that returns only on Force;
\* Wait has cancelled Force, the goroutine has returned, Wait has returned.
C20_Witness ==
    /\ shutdown.wait = "returned"
    /\ shutdown.timeout = 0
    /\ shutdown.force
    /\ \E w \in Workers :
           shutdown.workers[w] = [st |-> "exited", kind |-> "force"]

\* C21: with NewWithSignals, the Graceful context is cancelled once a first
\* SIGINT/SIGTERM has been sent, and the Force context is cancelled once a
\* second one has been sent (as it is when the timeout of Wait elapses); a
\* process that a signal has terminated has no contexts left to cancel.
C21_SecondSignalForces ==
    /\ (shutdown.signals >= 1) ~> (shutdown.graceful \/ shutdown.killed)
    /\ (shutdown.signals >= 2) ~> (shutdown.force \/ shutdown.killed)

\* C22: with NewWithSignals, once the handler has received a signal and
\* cancelled the Graceful context, no later SIGINT/SIGTERM terminates the
\* process, wherever the handler goroutine is.
C22_LaterSignalsSwallowed == shutdown.handled >= 1 => ~shutdown.killed

\* C23: a GET answered wholly between OnStart and the end of the startup
\* delay reports live=true, ready=false with 503 "initializing"; one answered
\* wholly after the delay and before OnStop reports live=true, ready=true
\* with 200 "ok"; and one that begins after OnStop has returned reports
\* live=false, ready=false with 503 "unhealthy", whenever the startup-delay
\* goroutine runs.
C23_HealthFollowsLifecycle ==
    /\ (health.resp.from = "initializing" /\ health.resp.to = "initializing"
            /\ health.resp.code # 405)
           => health.resp = respond(TRUE, FALSE, "initializing", "initializing")
    /\ (health.resp.from = "ready" /\ health.resp.to = "ready"
            /\ health.resp.code # 405)
           => health.resp = respond(TRUE, TRUE, "ready", "ready")
    /\ (health.resp.from = "stopped" /\ health.resp.code # 405)
           => health.resp = respond(FALSE, FALSE, "stopped", "stopped")

----------------------------------------------------------------------------
(* The claims about issue paths, allowed names and bind errors, checked    *)
(* under SpecCheck and SpecDiscovery                                        *)

\* The document path of a field under prefix: its document name after the
\* prefix, or the prefix itself for an inline field.
DocPath(prefix, p) ==
    IF p.inline THEN prefix
    ELSE IF prefix = <<>> THEN p.name
    ELSE prefix \o <<".">> \o p.name

\* The document paths of the fields of the value val of struct type t that
\* violate their required rule, nested and inline structs followed.
RECURSIVE ViolatedPaths(_, _, _)
ViolatedAt(val, f, ft, path) ==
    IF f.PkgPath # <<>> THEN {}
    ELSE IF Kind(ft) = "struct" THEN ViolatedPaths(val.sub[f.Name], ft, path)
    ELSE IF hasRequired(f.validate) /\ val.sub[f.Name].zero THEN {path}
    ELSE {}

ViolatedPaths(val, t, prefix) ==
    UNION { ViolatedAt(val, Fields(t)[i], Base(Fields(t)[i].Type),
                       DocPath(prefix, parseYAMLTag(Fields(t)[i].yaml, Fields(t)[i])))
            : i \in 1..Len(Fields(t)) }

\* The value Populate binds for entry r.
Bound(r) == yamlDecode(Get(arg.doc, r.key), r.base, arg.doc.strict)

\* C24: for every entry of struct type whose subtree binds, the issues of
\* its result are exactly "<document path>: required" for the fields that
\* violate the rule, the path made of the document names from the entry's
\* root (tls.cert for field Cert of nested field Tls), inline fields adding
\* no segment.
C24_IssuesCarryDocumentPath ==
    op = "Check" =>
        \A i \in 1..Len(reqs) :
            (Kind(reqs[i].base) = "struct" /\ ~Bound(reqs[i]).err)
            => \A j \in ResultsFor(reqs[i]) :
                   Range(ret.results[j].Issues) =
                       {Issue(path, "required") :
                            path \in ViolatedPaths(Bound(reqs[i]).val, reqs[i].base, <<>>)}

\* C25: a key of an entry's subtree that names a field its type declares,
\* at the top level or promoted from inline structs at any depth, is in the
\* allowed set of the unknown-key scan at that level and is not reported as
\* unknown.
C25_InlineNamesAllowed ==
    op = "Check" =>
        \A i \in 1..Len(reqs) :
            (Kind(reqs[i].base) = "struct" /\ Get(arg.doc, reqs[i].key).kind = "map")
            => \A k \in DOMAIN Get(arg.doc, reqs[i].key).ents
                            \cap {d[1] : d \in Declared(reqs[i].base)} :
                   /\ k \in DOMAIN allowedFields(reqs[i].base)
                   /\ \A j \in ResultsFor(reqs[i]) :
                          k \notin Range(ret.results[j].Unknown)

\* The struct types met from t through exported fields that are not excluded.
RECURSIVE Reach(_)
Reach(t) ==
    {t} \cup UNION { Reach(Base(Fields(t)[i].Type)) :
                       i \in {k \in 1..Len(Fields(t)) :
                                 /\ Fields(t)[k].PkgPath = <<>>
                                 /\ Fields(t)[k].yaml # <<"-">>
                                 /\ Kind(Base(Fields(t)[k].Type)) = "struct"} }

\* The name a tag gives: what stands before its first comma.
TagName(tag) == IF TrimSpace(tag) = <<>> THEN <<>> ELSE Split(TrimSpace(tag), ",")[1]

\* The exported fields of t whose tags give no name and that are not inline.
Unnamed(t) ==
    {i \in 1..Len(Fields(t)) :
        /\ Fields(t)[i].PkgPath = <<>>
        /\ TagName(Fields(t)[i].yaml) = <<>>
        /\ TagName(Fields(t)[i].json) = <<>>
        /\ ~parseYAMLTag(Fields(t)[i].yaml, Fields(t)[i]).inline}

\* The default name of a field: its identifier in lower case.
DefaultName(f) == <<LowerFirst(f.Name)>>

LastSegment(path) == Split(path, ".")[Len(Split(path, "."))]

\* C26: for every field of the type Spec describes (nested types included)
\* whose tags give no name, a yaml tag of modifiers only included, the name
\* is the identifier in lower case: parseYAMLTag gives it, the unknown-key
\* scan allows it, the issue path mapper maps the Go name to it, and the
\* FieldSpec of a leaf ends with it.
C26_DefaultNameIsLowercased ==
    (op = "Spec" /\ ~ret.err) =>
        \A t \in Reach(reqs[specMatch(reqs, arg.req)].base) :
            \A i \in Unnamed(t) :
                /\ parseYAMLTag(Fields(t)[i].yaml, Fields(t)[i]).name
                       = DefaultName(Fields(t)[i])
                /\ DefaultName(Fields(t)[i]) \in DOMAIN allowedFields(t)
                /\ yamlPathFromStructNS(<<Fields(t)[i].Name>>, t)
                       = DefaultName(Fields(t)[i])
                /\ Kind(Base(Fields(t)[i].Type)) # "struct"
                       => \E k \in 1..Len(ret.fields) :
                              LastSegment(ret.fields[k].Path) = DefaultName(Fields(t)[i])

\* C27: the result of an entry whose subtree fails to bind records the bind
\* error and has neither issues nor unknown keys: validation and the
\* unknown-key scan are not run for it.
C27_BindFailureSkipsScans ==
    op = "Check" =>
        \A i \in 1..Len(reqs) :
            Bound(reqs[i]).err
            => \A j \in ResultsFor(reqs[i]) :
                   /\ ret.results[j].Err = "populate"
                   /\ ret.results[j].Issues = <<>>
                   /\ ret.results[j].Unknown = <<>>

\* The number of leaves (fields that are no structs) of struct type t met
\* through exported fields that are not excluded, from the i-th field on.
RECURSIVE LeafCount(_, _)
LeafCountOf(f) ==
    IF f.PkgPath # <<>> \/ TagName(f.yaml) = <<"-">> THEN 0
    ELSE IF Kind(Base(f.Type)) = "struct" THEN LeafCount(Base(f.Type), 1)
    ELSE 1

LeafCount(t, i) ==
    IF i > Len(Fields(t)) THEN 0
    ELSE LeafCountOf(Fields(t)[i]) + LeafCount(t, i + 1)

\* C28: Spec returns one FieldSpec per leaf met through exported fields that
\* are not excluded, and none for an excluded field, a leaf or a struct with
\* all that is below it; no path has the segment "-".
C28_ExcludedFieldsOmitted ==
    (op = "Spec" /\ ~ret.err) =>
        /\ Len(ret.fields) = LeafCount(reqs[specMatch(reqs, arg.req)].base, 1)
        /\ \A k \in 1..Len(ret.fields) :
               <<"-">> \notin Range(Split(ret.fields[k].Path, "."))

----------------------------------------------------------------------------
(* The claims about the identity of entries, checked under SpecRegistry    *)
(* and SpecDiscovery                                                        *)

\* C29: Requirements() never returns two entries with the same Key, Type
\* and PkgPath; a type and a pointer to it registered under one key do not
\* give two entries that cannot be told apart.
C29_EntriesDistinguishable ==
    op = "Requirements" =>
        \A i \in 1..Len(ret.list) : \A j \in 1..Len(ret.list) :
            i # j => ret.list[i] # ret.list[j]

\* The entries of the registry that Requirements() shows as req.
EntriesOf(req) ==
    {i \in 1..Len(reqs) :
        Requirement(reqs[i].key, DisplayType(reqs[i].base), PkgPath(reqs[i].base)) = req}

\* C30: Spec and Skeleton of a requirement that Requirements() returns
\* describe the fields of the type registered in an entry shown as that
\* requirement, whatever else is registered and in whatever order.
C30_SpecOfOwnEntry ==
    (op \in {"Spec", "Skeleton"} /\ EntriesOf(arg.req) # {}) =>
        \E i \in EntriesOf(arg.req) :
            IF op = "Spec"
            THEN ~ret.err /\ ret.fields = walkStruct(reqs[i].base, <<>>)
            ELSE skeletonRet(skeletonFrom(arg.req,
                     [err |-> FALSE, fields |-> walkStruct(reqs[i].base, <<>>)])) = ret

============================================================================
